---------------------------- MODULE Spec2Model ----------------------------
(***************************************************************************)
(* The paragraph -> question pipeline of the AI question service:          *)
(* AIQuestionService.generateFromParagraph with its result cache, the      *)
(* retry scheduler withRetry, the model gateway (callOpenAI, embedTexts),  *)
(* the local validators and the similarity gate.                           *)
(*                                                                         *)
(* Texts are sequences of UTF-16 code units (what charCodeAt returns).     *)
(* Cosines and similarity thresholds are in hundredths (0.92 is 92).       *)
(***************************************************************************)
EXTENDS Integers, Sequences, FiniteSets, TLC

(***************************************************************************)
(* Sequence helpers                                                        *)
(***************************************************************************)

\* s.some(x => x = e)
Includes(s, e) == \E k \in 1..Len(s) : s[k] = e

\* The elements of a sequence, as a set (new Set(s)).
ToSet(s) == {s[k] : k \in 1..Len(s)}

\* a.slice(0, n)
Take(s, n) == SubSeq(s, 1, IF n < Len(s) THEN n ELSE Len(s))

\* The largest element of a non-empty set of integers.
SetMax(S) == CHOOSE x \in S : \A y \in S : y <= x

(***************************************************************************)
(* Unicode tables, for the code units the modelled texts are made of:      *)
(* ASCII, NBSP (160), E-acute (201, 233), sharp s (223), L-stroke          *)
(* (321, 322), the combining marks U+0300..U+036F and the trade mark sign  *)
(* U+2122 (8482).                                                          *)
(***************************************************************************)

\* String.prototype.toLowerCase, one code unit.
toLowerCase(c) ==
  IF c \in 65..90 THEN c + 32
  ELSE IF c = 201 THEN 233
  ELSE IF c = 321 THEN 322
  ELSE c

\* String.prototype.normalize("NFKD"), one code unit: the compatibility
\* decomposition. U+2122 decomposes to the two upper-case letters "TM".
NFKD(c) ==
  IF c = 233 THEN <<101, 769>>
  ELSE IF c = 201 THEN <<69, 769>>
  ELSE IF c = 160 THEN <<32>>
  ELSE IF c = 8482 THEN <<84, 77>>
  ELSE <<c>>

\* \p{L}
IsLetter(c) == c \in (65..90) \cup (97..122) \cup {201, 223, 233, 321, 322}

\* \p{N}
IsNumber(c) == c \in 48..57

\* \s
IsSpace(c) == c \in {9, 10, 11, 12, 13, 32, 160}

\* [̀-ͯ]
IsCombiningMark(c) == c \in 768..879

\* \w (the regular expressions that use \b carry no u flag: ASCII only)
IsWordChar(c) == c \in (48..57) \cup (65..90) \cup (97..122) \cup {95}

(***************************************************************************)
(* normalizeText                                                           *)
(***************************************************************************)

\* s.replace(/c/g, r) applied code unit by code unit: every code unit is
\* replaced by the sequence Repl gives for it.
\* (The replacements of s[lo..hi] are concatenated half by half, so that the
\* evaluation depth grows with the logarithm of the length.)
ExpandEach(s, Repl(_)) ==
  LET F[lo \in 1..Len(s), hi \in 1..Len(s)] ==
        IF lo = hi THEN Repl(s[lo])
        ELSE F[lo, (lo + hi) \div 2] \o F[(lo + hi) \div 2 + 1, hi]
  IN IF s = <<>> THEN <<>> ELSE F[1, Len(s)]

\* .replace(/ł/g, "l").replace(/ß/g, "ss")
ReplacePolishGerman(c) ==
  IF c = 322 THEN <<108>> ELSE IF c = 223 THEN <<115, 115>> ELSE <<c>>

\* .replace(/[^\p{L}\p{N}\s]/gu, " ")
PunctuationToSpace(c) ==
  IF IsLetter(c) \/ IsNumber(c) \/ IsSpace(c) THEN c ELSE 32

\* .replace(/\s+/g, " "): every maximal run of white space becomes one space.
\* The text is bound as a value (t), so that it is computed once.
CollapseSpaces(s) ==
  LET Collapsed(t) ==
        LET Kept(k) ==
              IF IsSpace(t[k])
              THEN IF k > 1 /\ IsSpace(t[k - 1]) THEN <<>> ELSE <<32>>
              ELSE <<t[k]>>
            F[lo \in 1..Len(t), hi \in 1..Len(t)] ==
              IF lo = hi THEN Kept(lo)
              ELSE F[lo, (lo + hi) \div 2] \o F[(lo + hi) \div 2 + 1, hi]
        IN IF t = <<>> THEN <<>> ELSE F[1, Len(t)]
  IN CHOOSE r \in { Collapsed(t) : t \in {s} } : TRUE

\* .trim()
Trim(s) ==
  LET Trimmed(t) ==
        LET keep == {k \in 1..Len(t) : ~IsSpace(t[k])}
        IN IF keep = {} THEN <<>>
           ELSE SubSeq(t, CHOOSE k \in keep : \A j \in keep : k <= j,
                       SetMax(keep))
  IN CHOOSE r \in { Trimmed(t) : t \in {s} } : TRUE

normalizeText(input) ==
  LET lowered  == [k \in 1..Len(input) |-> toLowerCase(input[k])]
      replaced == ExpandEach(lowered, ReplacePolishGerman)
      decomp   == ExpandEach(replaced, NFKD)
      stripped == SelectSeq(decomp, LAMBDA c : ~IsCombiningMark(c))
      spaced   == [k \in 1..Len(stripped) |-> PunctuationToSpace(stripped[k])]
  IN Trim(CollapseSpaces(spaced))

\* nb.split(" ") of a non-empty string: the maximal runs between the spaces.
SplitOnSpace(s) ==
  LET Split(t) ==
        LET spaces == { k \in 1..Len(t) : t[k] = 32 }
            n == Cardinality(spaces)
            \* the i-th space; 0 before the text and Len(t) + 1 after it
            Cut(i) ==
              IF i = 0 THEN 0
              ELSE IF i = n + 1 THEN Len(t) + 1
              ELSE CHOOSE p \in spaces :
                     Cardinality({ q \in spaces : q < p }) = i - 1
        IN [i \in 1..(n + 1) |-> SubSeq(t, Cut(i - 1) + 1, Cut(i) - 1)]
  IN CHOOSE r \in { Split(t) : t \in {s} } : TRUE

\* re.test(text) for a literal word: the word occurs in the text.
Occurs(word, text) ==
  \E k \in 1..(Len(text) - Len(word) + 1) :
     SubSeq(text, k, k + Len(word) - 1) = word

\* /\b(word)\b/.test(text): the word occurs between two word boundaries.
OccursAsWord(word, text) ==
  \E k \in 1..(Len(text) - Len(word) + 1) :
     /\ SubSeq(text, k, k + Len(word) - 1) = word
     /\ IsWordChar(word[1]) # (k > 1 /\ IsWordChar(text[k - 1]))
     /\ IsWordChar(word[Len(word)])
          # (k + Len(word) <= Len(text) /\ IsWordChar(text[k + Len(word)]))

(***************************************************************************)
(* detectLanguage and tagParagraphTopic                                    *)
(***************************************************************************)

\* detectLanguage: the alternatives of polishMarkers
polishMarkers ==
  { <<107, 116, 111, 114>>, \* ktor
    <<107, 116, 111, 114, 97>>, \* ktora
    <<107, 116, 111, 114, 101>>, \* ktore
    <<97, 100, 109, 105, 110, 105, 115, 116, 114, 97, 116, 111, 114>>, \* administrator
    <<112, 111, 100, 109, 105, 111, 116>>, \* podmiot
    <<100, 97, 110, 121, 99, 104>>, \* danych
    <<112, 114, 122, 101, 116, 119, 97, 114, 122, 97, 110, 105>>, \* przetwarzani
    <<122, 103, 111, 100>>, \* zgod
    <<111, 98, 111, 119, 105, 97, 122, 107>>, \* obowiazk
    <<119, 121, 106, 97, 116, 101, 107>>, \* wyjatek
    <<112, 114, 97, 119, 111>> } \* prawo

\* detectLanguage: the alternatives of englishMarkers
englishMarkers ==
  { <<119, 104, 105, 99, 104>>, \* which
    <<99, 111, 110, 116, 114, 111, 108, 108, 101, 114>>, \* controller
    <<112, 114, 111, 99, 101, 115, 115, 111, 114>>, \* processor
    <<108, 97, 119, 102, 117, 108>>, \* lawful
    <<112, 114, 111, 99, 101, 115, 115, 105, 110, 103>>, \* processing
    <<111, 98, 108, 105, 103, 97, 116, 105, 111, 110>>, \* obligation
    <<114, 105, 103, 104, 116, 115>>, \* rights
    <<100, 97, 116, 97, 32, 115, 117, 98, 106, 101, 99, 116>>, \* data subject
    <<116, 114, 97, 110, 115, 102, 101, 114>> } \* transfer

detectLanguage(paragraph, fallback) ==
  LET text == normalizeText(paragraph)
  IN IF text = <<>> THEN fallback
     ELSE IF \E w \in polishMarkers : Occurs(w, text) THEN "pl"
     ELSE IF \E w \in englishMarkers : Occurs(w, text) THEN "en"
     ELSE fallback

\* tagParagraphTopic: the alternatives of the rule with tag rights
rule_rights ==
  { <<112, 114, 97, 119, 111>>, \* prawo
    <<114, 105, 103, 104, 116>>, \* right
    <<114, 105, 103, 104, 116, 115>>, \* rights
    <<100, 97, 116, 97, 32, 115, 117, 98, 106, 101, 99, 116>>, \* data subject
    <<115, 112, 114, 122, 101, 99, 105, 119>>, \* sprzeciw
    <<100, 111, 115, 116, 101, 112>>, \* dostep
    <<117, 115, 117, 110, 105, 101, 99, 105, 101>>, \* usuniecie
    <<112, 111, 114, 116, 97, 98, 105, 108, 105, 116, 121>>, \* portability
    <<114, 101, 99, 116, 105, 102, 105, 99, 97, 116, 105, 111, 110>> } \* rectification

\* tagParagraphTopic: the alternatives of the rule with tag obligations
rule_obligations ==
  { <<111, 98, 111, 119, 105, 97, 122, 107>>, \* obowiazk
    <<111, 98, 108, 105, 103, 97, 116, 105, 111, 110>>, \* obligation
    <<99, 111, 110, 116, 114, 111, 108, 108, 101, 114>>, \* controller
    <<97, 100, 109, 105, 110, 105, 115, 116, 114, 97, 116, 111, 114>>, \* administrator
    <<105, 110, 102, 111, 114, 109, 97, 99, 121, 106, 110>>, \* informacyjn
    <<97, 99, 99, 111, 117, 110, 116, 97, 98, 105, 108, 105, 116, 121>> } \* accountability

\* tagParagraphTopic: the alternatives of the rule with tag definitions
rule_definitions ==
  { <<100, 101, 102, 105, 110, 105, 99, 106>>, \* definicj
    <<109, 101, 97, 110, 115>>, \* means
    <<111, 122, 110, 97, 99, 122, 97>>, \* oznacza
    <<105, 100, 101, 110, 116, 105, 102, 105, 97, 98, 108, 101>>, \* identifiable
    <<112, 115, 101, 117, 100, 111, 110, 121, 109, 105, 115, 97, 99, 106>>, \* pseudonymisacj
    <<112, 115, 101, 117, 100, 111, 110, 121, 109, 105, 122, 97, 99, 106>> } \* pseudonymizacj

\* tagParagraphTopic: the alternatives of the rule with tag transfers
rule_transfers ==
  { <<116, 114, 97, 110, 115, 102, 101, 114>>, \* transfer
    <<116, 104, 105, 114, 100, 32, 99, 111, 117, 110, 116, 114, 121>>, \* third country
    <<112, 97, 110, 115, 116, 119, 32, 116, 114, 122, 101, 99, 105, 99, 104>>, \* panstw trzecich
    <<115, 99, 99>>, \* scc
    <<97, 100, 101, 113, 117, 97, 99, 121>>, \* adequacy
    <<112, 114, 122, 101, 107, 97, 122, 121, 119, 97, 110>> } \* przekazywan

\* tagParagraphTopic: the alternatives of the rule with tag legal_basis
rule_legal_basis ==
  { <<122, 103, 111, 100, 97>>, \* zgoda
    <<99, 111, 110, 115, 101, 110, 116>>, \* consent
    <<108, 101, 103, 97, 108, 32, 98, 97, 115, 105, 115>>, \* legal basis
    <<117, 122, 97, 115, 97, 100, 110, 105, 111, 110>>, \* uzasadnion
    <<99, 111, 110, 116, 114, 97, 99, 116>>, \* contract
    <<111, 98, 111, 119, 105, 97, 122, 101, 107, 32, 112, 114, 97, 119, 110, 121>> } \* obowiazek prawny

\* tagParagraphTopic: the alternatives of the rule with tag security
rule_security ==
  { <<115, 101, 99, 117, 114, 105, 116, 121>>, \* security
    <<110, 97, 114, 117, 115, 122, 101, 110>>, \* naruszen
    <<98, 114, 101, 97, 99, 104>>, \* breach
    <<105, 110, 116, 101, 103, 114, 105, 116, 121>>, \* integrity
    <<99, 111, 110, 102, 105, 100, 101, 110, 116, 105, 97, 108, 105, 116, 121>>, \* confidentiality
    <<98, 101, 122, 112, 105, 101, 99, 122, 101, 110, 115, 116>> } \* bezpieczenst

\* tagParagraphTopic: the rules, in the order of the source.
topicRules ==
  << [tag |-> "rights", re |-> rule_rights],
     [tag |-> "obligations", re |-> rule_obligations],
     [tag |-> "definitions", re |-> rule_definitions],
     [tag |-> "transfers", re |-> rule_transfers],
     [tag |-> "legal_basis", re |-> rule_legal_basis],
     [tag |-> "security", re |-> rule_security] >>

tagParagraphTopic(paragraph) ==
  LET text == normalizeText(paragraph)
      hits == SelectSeq(topicRules,
                        LAMBDA rule : \E w \in rule.re : OccursAsWord(w, text))
      tags == [k \in 1..Len(hits) |-> hits[k].tag]
  IN IF Len(tags) > 0 THEN tags ELSE <<"general_gdpr">>

(***************************************************************************)
(* hashInput                                                               *)
(***************************************************************************)

\* The code units of the language codes and topic tags, for JSON.stringify.
CodeUnits(str) ==
  CASE str = "pl" -> <<112, 108>>
    [] str = "en" -> <<101, 110>>
    [] str = "rights" -> <<114, 105, 103, 104, 116, 115>>
    [] str = "obligations" -> <<111, 98, 108, 105, 103, 97, 116, 105, 111, 110, 115>>
    [] str = "definitions" -> <<100, 101, 102, 105, 110, 105, 116, 105, 111, 110, 115>>
    [] str = "transfers" -> <<116, 114, 97, 110, 115, 102, 101, 114, 115>>
    [] str = "legal_basis" -> <<108, 101, 103, 97, 108, 95, 98, 97, 115, 105, 115>>
    [] str = "security" -> <<115, 101, 99, 117, 114, 105, 116, 121>>
    [] str = "general_gdpr" -> <<103, 101, 110, 101, 114, 97, 108, 95, 103, 100, 112, 114>>

\* JSON.stringify of one code unit inside a string: the quote, the backslash
\* and the control characters are escaped, everything else is copied.
JsonEscape(c) ==
  IF c = 34 THEN <<92, 34>>
  ELSE IF c = 92 THEN <<92, 92>>
  ELSE IF c = 8 THEN <<92, 98>>
  ELSE IF c = 9 THEN <<92, 116>>
  ELSE IF c = 10 THEN <<92, 110>>
  ELSE IF c = 12 THEN <<92, 102>>
  ELSE IF c = 13 THEN <<92, 114>>
  ELSE IF c = 11 THEN <<92, 117, 48, 48, 48, 98>>
  ELSE <<c>>

\* JSON.stringify of a string value.
JsonString(s) == <<34>> \o ExpandEach(s, JsonEscape) \o <<34>>

\* JSON.stringify of an array of tags.
JsonTags(tags) ==
  LET F[k \in 0..Len(tags)] ==
        IF k = 0 THEN <<>>
        ELSE F[k - 1] \o (IF k > 1 THEN <<44>> ELSE <<>>)
                      \o JsonString(CodeUnits(tags[k]))
  IN <<91>> \o F[Len(tags)] \o <<93>>

\* JSON.stringify({ paragraph, detectedLanguage, articleRef, paragraphTags })
JsonInput(input) ==
  <<123>> \o <<34, 112, 97, 114, 97, 103, 114, 97, 112, 104, 34, 58>> \* "paragraph":
    \o JsonString(input.paragraph)
    \o <<44>> \o <<34, 100, 101, 116, 101, 99, 116, 101, 100, 76, 97, 110, 103, 117, 97, 103, 101, 34, 58>> \* "detectedLanguage":
    \o JsonString(CodeUnits(input.detectedLanguage))
    \o <<44>> \o <<34, 97, 114, 116, 105, 99, 108, 101, 82, 101, 102, 34, 58>> \* "articleRef":
    \o JsonString(input.articleRef)
    \o <<44>> \o <<34, 112, 97, 114, 97, 103, 114, 97, 112, 104, 84, 97, 103, 115, 34, 58>> \* "paragraphTags":
    \o JsonTags(input.paragraphTags)
    \o <<125>>

\* A 32-bit integer is kept as two 16-bit halves, so that no intermediate
\* value leaves the range of TLC's integers.
Half == 2 ^ 16

\* hash = (hash << 5) - hash + raw.charCodeAt(i); hash |= 0
\* which is 31 * hash + code, truncated to 32 bits.
hashStep(hash, code) ==
  LET lo == 31 * hash.lo + code
      hi == 31 * hash.hi + (lo \div Half)
  IN [hi |-> hi % Half, lo |-> lo % Half]

\* The signed value of a 32-bit integer (what String(hash) prints).
ToInt32(hash) ==
  IF hash.hi >= Half \div 2 THEN (hash.hi - Half) * Half + hash.lo
  ELSE hash.hi * Half + hash.lo

\* One iteration of the for loop, or none past the end of raw.
hashIteration(hash, raw, k) ==
  IF k <= Len(raw) THEN hashStep(hash, raw[k]) ELSE hash

hashIterations4(hash, raw, k) ==
  hashIteration(hashIteration(hashIteration(hashIteration(
    hash, raw, k), raw, k + 1), raw, k + 2), raw, k + 3)

\* The for loop from index k on, eight iterations at a time (which keeps the
\* evaluation shallow).
RECURSIVE hashLoop(_, _, _)
hashLoop(hash, raw, k) ==
  IF hash.lo >= 0 /\ k > Len(raw) THEN hash
  ELSE hashLoop(hashIterations4(hashIterations4(hash, raw, k), raw, k + 4),
                raw, k + 8)

\* String(hash) is kept as the number it prints.
hashInput(input) ==
  LET raw == JsonInput(input)
  IN IF Len(raw) = 0 THEN 0
     ELSE ToInt32(hashLoop([hi |-> 0, lo |-> 0], raw, 1))

(***************************************************************************)
(* Configuration                                                           *)
(***************************************************************************)

\* DEFAULT_CONFIG (the fields the pipeline's control flow reads). The
\* thresholds are in hundredths.
DEFAULT_CONFIG ==
  [ overlapThreshold |-> 25,
    similarity |-> [ duplicateThreshold |-> 92,
                     tooFarThreshold |-> 55,
                     targetMin |-> 65,
                     targetMax |-> 85,
                     topK |-> 5,
                     semanticAttempts |-> 3 ],
    retry |-> [ maxAttempts |-> 4, baseDelayMs |-> 300 ] ]

(***************************************************************************)
(* The local validators                                                    *)
(***************************************************************************)

\* tokens.join(" ")
JoinWithSpace(tokens) ==
  LET F[k \in 0..Len(tokens)] ==
        IF k = 0 THEN <<>>
        ELSE F[k - 1] \o (IF k > 1 THEN <<32>> ELSE <<>>) \o tokens[k]
  IN F[Len(tokens)]

\* The set of the contiguous n-grams of a token list, each joined by spaces.
Grams(tokens, n) ==
  {JoinWithSpace(SubSeq(tokens, k, k + n - 1)) : k \in 1..(Len(tokens) - n + 1)}

\* A ratio num / den, den > 0.
Ratio(num, den) == [num |-> num, den |-> den]

\* ratio > hundredths / 100
RatioExceeds(ratio, hundredths) == ratio.num * 100 > hundredths * ratio.den

\* ngramOverlap dividing by the number of n-grams of the second text.
ngramOverlapOverSecond(a, b, n) ==
  LET na == normalizeText(a)
      nb == normalizeText(b)
      tokensA == SplitOnSpace(na)
      tokensB == SplitOnSpace(nb)
      gramsA == Grams(tokensA, n)
      gramsB == Grams(tokensB, n)
      intersection == Cardinality(gramsA \cap gramsB)
  IN IF na = <<>> \/ nb = <<>> THEN Ratio(0, 1)
     ELSE IF Len(tokensA) < n \/ Len(tokensB) < n THEN Ratio(0, 1)
     ELSE Ratio(intersection,
                IF Cardinality(gramsB) > 1 THEN Cardinality(gramsB) ELSE 1)

ngramOverlap(a, b, n) ==
  LET na == normalizeText(a)
      nb == normalizeText(b)
      tokensA == SplitOnSpace(na)
      tokensB == SplitOnSpace(nb)
      gramsA == Grams(tokensA, n)
      gramsB == Grams(tokensB, n)
      intersection == Cardinality(gramsA \cap gramsB)
  IN IF na = <<>> \/ nb = <<>> THEN Ratio(0, 1)
     ELSE IF Len(tokensA) < n \/ Len(tokensB) < n THEN Ratio(0, 1)
     ELSE Ratio(intersection,
                IF Cardinality(gramsA) > 1 THEN Cardinality(gramsA) ELSE 1)

\* A variant that does not compare the normalized texts.
validateChoiceIntegrityRawTexts(question) ==
  LET labels == [k \in 1..Len(question.choices) |-> question.choices[k].label]
      texts  == [k \in 1..Len(question.choices) |-> question.choices[k].text]
  IN IF ~question.choicesIsArray
       THEN [ok |-> FALSE, reason |-> "choices_missing"]
     ELSE IF Len(question.choices) # 4
       THEN [ok |-> FALSE, reason |-> "choices_count"]
     ELSE IF Cardinality(ToSet(labels)) # 4
       THEN [ok |-> FALSE, reason |-> "duplicate_labels"]
     ELSE IF Cardinality(ToSet(texts)) # 4
       THEN [ok |-> FALSE, reason |-> "duplicate_choice_texts"]
     ELSE IF ~Includes(labels, question.correct_label)
       THEN [ok |-> FALSE, reason |-> "correct_label_not_in_choices"]
     ELSE [ok |-> TRUE, reason |-> ""]

\* A variant with one reason for a missing array and a wrong count.
validateChoiceIntegrityOneReason(question) ==
  LET labels == [k \in 1..Len(question.choices) |-> question.choices[k].label]
      texts  == [k \in 1..Len(question.choices) |->
                   normalizeText(question.choices[k].text)]
  IN IF ~question.choicesIsArray \/ Len(question.choices) # 4
       THEN [ok |-> FALSE, reason |-> "choices_missing"]
     ELSE IF Cardinality(ToSet(labels)) # 4
       THEN [ok |-> FALSE, reason |-> "duplicate_labels"]
     ELSE IF Cardinality(ToSet(texts)) # 4
       THEN [ok |-> FALSE, reason |-> "duplicate_choice_texts"]
     ELSE IF ~Includes(labels, question.correct_label)
       THEN [ok |-> FALSE, reason |-> "correct_label_not_in_choices"]
     ELSE [ok |-> TRUE, reason |-> ""]

\* A candidate is the object the generator call returned:
\*   choicesIsArray  Array.isArray(question.choices)
\*   choices         the array, a sequence of [label, text]
\*   correct_label, question, difficulty, tags
validateChoiceIntegrity(question) ==
  LET labels == [k \in 1..Len(question.choices) |-> question.choices[k].label]
      texts  == [k \in 1..Len(question.choices) |->
                   normalizeText(question.choices[k].text)]
  IN IF ~question.choicesIsArray
       THEN [ok |-> FALSE, reason |-> "choices_missing"]
     ELSE IF Len(question.choices) # 4
       THEN [ok |-> FALSE, reason |-> "choices_count"]
     ELSE IF Cardinality(ToSet(labels)) # 4
       THEN [ok |-> FALSE, reason |-> "duplicate_labels"]
     ELSE IF Cardinality(ToSet(texts)) # 4
       THEN [ok |-> FALSE, reason |-> "duplicate_choice_texts"]
     ELSE IF ~Includes(labels, question.correct_label)
       THEN [ok |-> FALSE, reason |-> "correct_label_not_in_choices"]
     ELSE [ok |-> TRUE, reason |-> ""]

\* estimateDifficulty: the negation and exception markers
negationMarkers ==
  { <<110, 111, 116>>, \* not
    <<101, 120, 99, 101, 112, 116>>, \* except
    <<110, 105, 101>>, \* nie
    <<122, 32, 119, 121, 106, 97, 116, 107, 105, 101, 109>>, \* z wyjatkiem
    <<107, 116, 111, 114, 101, 32, 122, 32, 112, 111, 110, 105, 122, 115, 122, 121, 99, 104, 32, 110, 105, 101>> } \* ktore z ponizszych nie

\* estimateDifficulty: the scenario and role markers
scenarioMarkers ==
  { <<115, 99, 101, 110, 97, 114, 105, 111>>, \* scenario
    <<112, 114, 122, 121, 112, 97, 100, 101, 107>>, \* przypadek
    <<115, 121, 116, 117, 97, 99, 106, 97>>, \* sytuacja
    <<97, 100, 109, 105, 110, 105, 115, 116, 114, 97, 116, 111, 114>>, \* administrator
    <<112, 111, 100, 109, 105, 111, 116>> } \* podmiot

\* postValidate: the markers of a lexical, trivial question
lexicalMarkers ==
  { <<99, 111, 32, 111, 122, 110, 97, 99, 122, 97>>, \* co oznacza
    <<106, 97, 107, 105, 32, 119, 121, 114, 97, 122>>, \* jaki wyraz
    <<107, 116, 111, 114, 101, 32, 115, 108, 111, 119, 111>> } \* ktore slowo

\* `${questionText} ${choices.map((c) => c.text).join(" ")}`
DifficultyText(questionText, choices) ==
  questionText \o <<32>>
    \o JoinWithSpace([k \in 1..Len(choices) |-> choices[k].text])

\* estimateDifficulty measuring the text before it is normalized.
estimateDifficultyRawLength(questionText, choices) ==
  LET text == DifficultyText(questionText, choices)
      normalized == normalizeText(text)
      len == Len(text)
      score == 1 + (IF len > 180 THEN 1 ELSE 0)
                 + (IF len > 320 THEN 1 ELSE 0)
                 + (IF \E w \in negationMarkers : OccursAsWord(w, normalized)
                    THEN 1 ELSE 0)
                 + (IF \E w \in scenarioMarkers : OccursAsWord(w, normalized)
                    THEN 1 ELSE 0)
  IN IF score < 5 THEN score ELSE 5

estimateDifficulty(questionText, choices) ==
  LET normalized == normalizeText(DifficultyText(questionText, choices))
      len == Len(normalized)
      score == 1 + (IF len > 180 THEN 1 ELSE 0)
                 + (IF len > 320 THEN 1 ELSE 0)
                 + (IF \E w \in negationMarkers : OccursAsWord(w, normalized)
                    THEN 1 ELSE 0)
                 + (IF \E w \in scenarioMarkers : OccursAsWord(w, normalized)
                    THEN 1 ELSE 0)
  IN IF score < 5 THEN score ELSE 5

\* The four decisions of decideSimilarityAction.
RejectDuplicate == [action |-> "reject", reason |-> "too_similar_duplicate"]
ReviseTooFar == [action |-> "revise", reason |-> "too_distant_from_bank_style"]
ReviseOutsideWindow ==
  [action |-> "revise", reason |-> "outside_target_similarity_window"]
AcceptInWindow ==
  [action |-> "accept", reason |-> "within_target_similarity_window"]

\* A variant that tests the distance before the duplicate.
decideSimilarityActionFarFirst(maxCosine, cfg) ==
  IF maxCosine < cfg.tooFarThreshold
    THEN ReviseTooFar
  ELSE IF maxCosine > cfg.duplicateThreshold
    THEN RejectDuplicate
  ELSE IF maxCosine < cfg.targetMin \/ maxCosine > cfg.targetMax
    THEN ReviseOutsideWindow
  ELSE AcceptInWindow

\* A variant whose tests include the thresholds themselves.
decideSimilarityActionInclusive(maxCosine, cfg) ==
  IF maxCosine >= cfg.duplicateThreshold
    THEN RejectDuplicate
  ELSE IF maxCosine <= cfg.tooFarThreshold
    THEN ReviseTooFar
  ELSE IF maxCosine <= cfg.targetMin \/ maxCosine >= cfg.targetMax
    THEN ReviseOutsideWindow
  ELSE AcceptInWindow

decideSimilarityAction(maxCosine, cfg) ==
  IF maxCosine > cfg.duplicateThreshold
    THEN RejectDuplicate
  ELSE IF maxCosine < cfg.tooFarThreshold
    THEN ReviseTooFar
  ELSE IF maxCosine < cfg.targetMin \/ maxCosine > cfg.targetMax
    THEN ReviseOutsideWindow
  ELSE AcceptInWindow

\* Array.from(new Set([...a, ...b])): the concatenation without repeats, each
\* element at its first position.
UnionInOrder(a, b) ==
  LET all == a \o b
  IN SelectSeq([k \in 1..Len(all) |->
                  [v |-> all[k],
                   first |-> \A j \in 1..(k - 1) : all[j] # all[k]]],
               LAMBDA e : e.first)

\* A variant that tests the reported difficulty only.
postValidateReportedOnly(candidate, paragraph, paragraphTags, config) ==
  LET integrity == validateChoiceIntegrity(candidate)
      overlap == ngramOverlap(paragraph, candidate.question, 5)
      normalizedQuestion == normalizeText(candidate.question)
      merged == UnionInOrder(candidate.tags, paragraphTags)
      Throw(message) == [threw |-> TRUE, message |-> message, value |-> candidate]
  IN IF ~integrity.ok
       THEN Throw("Choice integrity failed: " \o integrity.reason)
     ELSE IF RatioExceeds(overlap, config.overlapThreshold)
       THEN Throw("Question too close to source paragraph")
     ELSE IF candidate.difficulty < 2
       THEN Throw("Question difficulty too low")
     ELSE IF \E w \in lexicalMarkers : OccursAsWord(w, normalizedQuestion)
       THEN Throw("Question too lexical/trivial")
     ELSE [threw |-> FALSE, message |-> "",
           value |-> [candidate EXCEPT
                        !.tags = [k \in 1..Len(merged) |-> merged[k].v]]]

\* postValidate: the message of the error it throws, or "" and the validated
\* candidate. The checks run in the order of the source.
postValidate(candidate, paragraph, paragraphTags, config) ==
  LET integrity == validateChoiceIntegrity(candidate)
      overlap == ngramOverlap(paragraph, candidate.question, 5)
      heuristicDifficulty ==
        estimateDifficulty(candidate.question, candidate.choices)
      normalizedQuestion == normalizeText(candidate.question)
      merged == UnionInOrder(candidate.tags, paragraphTags)
      Throw(message) == [threw |-> TRUE, message |-> message, value |-> candidate]
  IN IF ~integrity.ok
       THEN Throw("Choice integrity failed: " \o integrity.reason)
     ELSE IF RatioExceeds(overlap, config.overlapThreshold)
       THEN Throw("Question too close to source paragraph")
     ELSE IF heuristicDifficulty < 2 \/ candidate.difficulty < 2
       THEN Throw("Question difficulty too low")
     ELSE IF \E w \in lexicalMarkers : OccursAsWord(w, normalizedQuestion)
       THEN Throw("Question too lexical/trivial")
     ELSE [threw |-> FALSE, message |-> "",
           value |-> [candidate EXCEPT
                        !.tags = [k \in 1..Len(merged) |-> merged[k].v]]]

(***************************************************************************)
(* ModelGateway: callOpenAI and embedTexts                                 *)
(***************************************************************************)

\* An Error object: its message, its status and retryable properties (0 and
\* FALSE when the error carries none), and where it was created: the pass of
\* generateFromParagraph and the try of withRetry (0 outside a wrapped call).
\* NoError stands for null and undefined.
NoError ==
  [message |-> "", status |-> 0, retryable |-> FALSE, pass |-> 0, try |-> 0]

\* res.ok
ResponseOk(status) == status \in 200..299

\* A variant that flags 429 only.
GatewayErrorOn429(op, status) ==
  [ message |-> IF op = "embed" THEN "Embeddings error" ELSE "OpenAI error",
    status |-> status,
    retryable |-> (status = 429) ]

\* The error callOpenAI and embedTexts throw for a response that is not ok.
GatewayError(op, status) ==
  [ message |-> IF op = "embed" THEN "Embeddings error" ELSE "OpenAI error",
    status |-> status,
    retryable |-> (status = 429 \/ status = 503) ]

\* callOpenAI: the error for a response without output text.
MissingOutputError ==
  [ message |-> "Missing JSON output from OpenAI Responses API",
    status |-> 0,
    retryable |-> FALSE ]

(***************************************************************************)
(* withRetry: the decision of its catch block                              *)
(***************************************************************************)

\* A variant that retries on 503 only.
IsRetryableOn503(error) == error.status = 503

\* const retryable = status === 429 || status === 503 || error?.retryable
IsRetryable(error) ==
  error.status = 429 \/ error.status = 503 \/ error.retryable

\* A variant that gives up only after the last try.
GivesUpAtLastOnly(error, attempt, maxAttempts) == attempt = maxAttempts

\* if (!retryable || attempt === maxAttempts) break;
GivesUp(error, attempt, maxAttempts) ==
  ~IsRetryable(error) \/ attempt = maxAttempts

\* A variant whose delay grows linearly.
RetryDelayLinear(baseDelayMs, attempt, jitter) == baseDelayMs * attempt + jitter

\* baseDelayMs * 2 ** (attempt - 1) + jitter
RetryDelay(baseDelayMs, attempt, jitter) ==
  baseDelayMs * 2 ^ (attempt - 1) + jitter

(***************************************************************************)
(* assessSimilarity: the parts around the embedding request                *)
(***************************************************************************)

\* A variant that cuts the corpus to 400 texts before it drops the empty
\* ones.
BankTextsCutFirst(existingQuestions) ==
  SelectSeq([k \in 1..Len(Take(existingQuestions, 400)) |->
               Trim(existingQuestions[k])],
            LAMBDA t : t # <<>>)

\* bankTexts: the corpus texts, trimmed, without the empty ones, at most 400.
BankTexts(existingQuestions) ==
  Take(SelectSeq([k \in 1..Len(existingQuestions) |-> Trim(existingQuestions[k])],
                 LAMBDA t : t # <<>>),
       400)

\* scored.sort((a, b) => b.cosine - a.cosine): a stable sort, largest first.
\* The element at k goes after those with a larger cosine and those with the
\* same cosine that stand before it. The array and the places are bound as
\* values (s, place), so that they are computed once.
SortByCosine(scored) ==
  LET Place(s) ==
        [k \in 1..Len(s) |->
           1 + Cardinality({ j \in 1..Len(s) :
                 \/ s[j].cosine > s[k].cosine
                 \/ s[j].cosine = s[k].cosine /\ j < k })]
      Placed(s, place) ==
        [at \in 1..Len(s) |-> s[CHOOSE k \in 1..Len(s) : place[k] = at]]
  IN CHOOSE sorted \in
       UNION { { Placed(s, place) : place \in {Place(s)} } : s \in {scored} } :
         TRUE

\* The assessment returned when the corpus holds no text.
SkippedSimilarity ==
  [ action |-> "accept",
    reason |-> "bank_missing_skip_similarity",
    max_cosine_to_any_existing |-> <<>>,
    top_matches |-> <<>> ]

\* The assessment computed from the cosines of the candidate to the bank
\* texts (cosines[k] is the cosine to bankTexts[k]). A number or null is kept
\* as a sequence of length one or zero.
ScoredSimilarity(bankTexts, cosines, cfg) ==
  LET scored == [k \in 1..Len(cosines) |->
                   [text |-> bankTexts[k], cosine |-> cosines[k]]]
      topMatches == Take(SortByCosine(scored), cfg.topK)
      maxCosine == IF Len(topMatches) > 0 THEN topMatches[1].cosine ELSE 0
      decision == decideSimilarityAction(maxCosine, cfg)
  IN [ action |-> decision.action,
       reason |-> decision.reason,
       max_cosine_to_any_existing |-> <<maxCosine>>,
       top_matches |-> topMatches ]

(***************************************************************************)
(* The inputs of the model                                                 *)
(***************************************************************************)

\* A service configuration: the constructor merges its config argument over
\* DEFAULT_CONFIG.
Configured(semanticAttempts, maxAttempts, baseDelayMs) ==
  [DEFAULT_CONFIG EXCEPT
     !.similarity.semanticAttempts = semanticAttempts,
     !.retry = [maxAttempts |-> maxAttempts, baseDelayMs |-> baseDelayMs]]

\* The configurations of the unrestricted provider: the default three passes
\* without retries, the default four tries within one pass, two passes of two
\* tries each, and a shorter base delay.
ConfigPool ==
  { Configured(3, 1, 300), Configured(1, 4, 300),
    Configured(2, 2, 300), Configured(1, 3, 100) }

\* The arguments of generateFromParagraph: two paragraphs, "Aa" and "BB",
\* with no corpus, a corpus of one blank text and a corpus of two questions.
ArgsPool ==
  { [paragraph |-> p, language |-> "pl", articleRef |-> <<>>,
     existingQuestions |-> e] :
      p \in { <<65, 97>>, <<66, 66>> },
      e \in { <<>>, << <<32>> >>, << <<97, 32>>, <<98>> >> } }

\* The objects the generator call returns. The first passes postValidate
\* ("A nie b?" carries a negation marker), the second repeats a label, the
\* third reports difficulty 1, the fourth ("A b?") carries no marker of
\* difficulty, the fifth labels its first choice E.
GoodCandidate ==
  [ choicesIsArray |-> TRUE,
    choices |-> << [label |-> "A", text |-> <<97>>],
                   [label |-> "B", text |-> <<98>>],
                   [label |-> "C", text |-> <<97, 97>>],
                   [label |-> "D", text |-> <<97, 98>>] >>,
    correct_label |-> "A",
    question |-> <<65, 32, 110, 105, 101, 32, 98, 63>>,
    difficulty |-> 3,
    tags |-> <<"rights">> ]

CandidatePool ==
  { GoodCandidate,
    [GoodCandidate EXCEPT !.choices[2].label = "A"],
    [GoodCandidate EXCEPT !.difficulty = 1],
    [GoodCandidate EXCEPT !.question = <<65, 32, 98, 63>>],
    [GoodCandidate EXCEPT !.choices[1].label = "E", !.correct_label = "E"] }

\* The HTTP statuses the provider answers with.
Statuses == {200, 400, 429, 503}

\* Math.floor(Math.random() * 120) lies in 0..119: the two extremes.
JitterValues == {0, 119}

\* The cosines the embeddings of a response can give, in hundredths.
CosineValues == {50, 75, 95}

\* The activations of generateFromParagraph that can be in progress together.
NumInvocations == 2
Invocations == 1..NumInvocations

(***************************************************************************)
(* State                                                                   *)
(***************************************************************************)

VARIABLES
  config,    \* this.config of the service
  cache,     \* sharedCache: cache key -> Result
  inv,       \* the activations of generateFromParagraph, see IdleInvocation
  throttled, \* the provider: how many more requests it answers with 429
  applied,   \* the last application of a pure function, see NoApplication
  http,      \* the run of the HTTP handler, see IdleHandler
  batch,     \* the run of the batch generator, see IdleBatch
  repair     \* the run of the OCR repair script, see IdleRepair

vars == <<config, cache, inv, throttled, applied, http, batch, repair>>

\* An absent object.
Null == [null |-> TRUE]

\* An application of one of the exported pure functions: the function, its
\* arguments and the value it returned. None has been made.
NoApplication == [fn |-> "none", args |-> Null, result |-> Null]

\* One run of handler(req): where it is suspended ("idle" before a request,
\* "parsing" at await parseJson, "awaiting" at await generateFromParagraph,
\* "responded" after its return), the request, process.env.OPENAI_API_KEY as
\* the run read it, and the Response it returned.
IdleHandler == [pc |-> "idle", req |-> Null, apiKey |-> "", response |-> Null]

\* One run of the batch generator (scripts/generate_ai_questions.js): where
\* main is suspended ("idle" before the run, "loop" at the test of the while
\* loop, "cache" at await readCache, "generate" and "validate" at the fetch of
\* the two model calls, "exited" after the process ended), the environment's
\* OPENAI_API_KEY, generatedCount, attempt, the key of the current cache
\* payload, the question generateAndValidate holds across the validator call,
\* the items and existingAiQuestions, the cache directory (per key: no file,
\* or the cached result), and the history: the fetches made, whether the
\* output file was written, and the exit code.
IdleBatch ==
  [ pc |-> "idle", apiKey |-> "", generatedCount |-> 0, attempt |-> 0,
    key |-> 0, qText |-> <<>>, items |-> <<>>, existingAiQuestions |-> <<>>,
    cacheDir |-> <<>>, fetches |-> 0, written |-> FALSE, exitCode |-> -1 ]

\* One run of the OCR repair script, from runWithConcurrency on: where main
\* is ("idle" before the call, "running" while the runners work, "written"
\* after the output file was written), the selected questions, the limit,
\* the shared index, the results array and the runners (per runner: "await"
\* while it awaits a worker whose value is ready, "api" while the worker
\* awaits the model, "done"; the index it took; the value of the worker), the
\* repair cache (per question: no entry, or the cached repair), the errors,
\* the questions written, and the history: how often the worker ran per
\* index and the answer of the model per index.
IdleRepair ==
  [ pc |-> "idle", selected |-> <<>>, limit |-> 0, index |-> 0,
    results |-> <<>>, runners |-> <<>>, cache |-> <<>>, errors |-> <<>>,
    written |-> <<>>, calls |-> <<>>, replies |-> <<>> ]

\* The locals of one withRetry call: the wrapped call (op), attempt and
\* lastError, the status of the last response, how the call settled ("no"
\* while it runs) and the value it returned; and its history: the tries made
\* (calls of fn) and the delays slept.
NoRetry ==
  [ op |-> "none", attempt |-> 0, lastError |-> NoError, status |-> 0,
    settled |-> "no", value |-> Null, tries |-> 0, delays |-> <<>> ]

\* The state of one activation: where it is suspended (pc), its arguments and
\* locals, the withRetry call it awaits, its outcome, and its history: the
\* HTTP requests it sent per operation, the requests that are not yet
\* answered, the passes (generate operations) it started, and whether the
\* similarity gate has answered reject.
IdleInvocation ==
  [ pc |-> "idle",
    args |-> Null, input |-> Null, cacheKey |-> 0,
    i |-> 0, lastError |-> NoError,
    validated |-> Null, verified |-> Null,
    retry |-> NoRetry,
    result |-> Null, error |-> NoError,
    requests |-> [generate |-> 0, verify |-> 0, embed |-> 0],
    outstanding |-> 0,
    passes |-> 0, rejected |-> FALSE ]

\* An Error object created by this activation, stamped with the pass and the
\* try it was created in.
NewError(me, e) ==
  [ message |-> e.message, status |-> e.status, retryable |-> e.retryable,
    pass |-> me.passes, try |-> me.retry.tries ]

\* new Error(message)
PlainError(message) == [message |-> message, status |-> 0, retryable |-> FALSE]

(***************************************************************************)
(* withRetry, from one suspension to the next. A step state S holds the    *)
(* activation (S.me) and the cache (S.cache).                              *)
(***************************************************************************)

\* withRetry returns value or throws error: its promise settles, and the
\* await in generateFromParagraph resumes in a later step.
Settle(S, how, value, error) ==
  [S EXCEPT !.me.pc = "settled", !.me.retry.settled = how,
            !.me.retry.value = value, !.me.retry.lastError = error]

\* A variant that sends the request twice.
SendRequestTwice(S) ==
  [S EXCEPT !.me.pc = "fetch", !.me.requests[S.me.retry.op] = @ + 2,
            !.me.outstanding = @ + 2]

\* fetch(...): one HTTP request of the wrapped call is in flight.
SendRequest(S) ==
  [S EXCEPT !.me.pc = "fetch", !.me.requests[S.me.retry.op] = @ + 1,
            !.me.outstanding = @ + 1]

\* A variant that sends a request for every try.
InvokeFnAlwaysSends(S) == SendRequest([S EXCEPT !.me.retry.tries = @ + 1])

\* await fn(): one try of the wrapped call. generateCandidate and
\* verifyCandidate send their request at once; assessSimilarity returns
\* without a request when the corpus holds no text.
InvokeFn(S) ==
  LET T == [S EXCEPT !.me.retry.tries = @ + 1]
  IN IF S.me.retry.op = "embed"
          /\ BankTexts(S.me.args.existingQuestions) = <<>>
       THEN Settle(T, "returned", SkippedSimilarity, T.me.retry.lastError)
     ELSE SendRequest(T)

\* The test of the for loop: another try, or throw lastError.
ForTest(S, cfg) ==
  IF S.me.retry.attempt <= cfg.retry.maxAttempts
    THEN InvokeFn(S)
  ELSE Settle(S, "thrown", Null, S.me.retry.lastError)

\* withRetry(fn, retryConfig) up to its first suspension.
StartWithRetry(S, cfg, op) ==
  ForTest([S EXCEPT !.me.retry = [NoRetry EXCEPT !.op = op, !.attempt = 1]],
          cfg)

\* A variant that sleeps after the last try too.
RetryCatchSleepsAtLast(S, cfg, error, jitter) ==
  LET T == [S EXCEPT !.me.retry.lastError = error]
  IN IF ~IsRetryable(error)
       THEN Settle(T, "thrown", Null, error)
     ELSE [T EXCEPT !.me.pc = "sleep",
                    !.me.retry.delays =
                       Append(@, RetryDelay(cfg.retry.baseDelayMs,
                                            S.me.retry.attempt, jitter))]

\* The catch block: lastError = error, then break and throw, or sleep.
RetryCatch(S, cfg, error, jitter) ==
  LET T == [S EXCEPT !.me.retry.lastError = error]
  IN IF GivesUp(error, S.me.retry.attempt, cfg.retry.maxAttempts)
       THEN Settle(T, "thrown", Null, error)
     ELSE [T EXCEPT !.me.pc = "sleep",
                    !.me.retry.delays =
                       Append(@, RetryDelay(cfg.retry.baseDelayMs,
                                            S.me.retry.attempt, jitter))]

\* A variant that does not count the try.
RetryWakesSameAttempt(S, cfg) == ForTest(S, cfg)

\* The sleep is over: attempt += 1 and the test of the loop.
RetryWakes(S, cfg) == ForTest([S EXCEPT !.me.retry.attempt = @ + 1], cfg)

(***************************************************************************)
(* generateFromParagraph, from one suspension to the next                  *)
(***************************************************************************)

\* return result: the locals go out of scope.
Return(S, result) ==
  [S EXCEPT !.me = [IdleInvocation EXCEPT
                      !.pc = "returned", !.result = result,
                      !.args = S.me.args, !.cacheKey = S.me.cacheKey,
                      !.requests = S.me.requests,
                      !.outstanding = S.me.outstanding,
                      !.passes = S.me.passes,
                      !.rejected = S.me.rejected]]

\* throw error, out of generateFromParagraph.
ThrowOut(S, error) ==
  [S EXCEPT !.me = [IdleInvocation EXCEPT
                      !.pc = "thrown", !.error = error,
                      !.args = S.me.args, !.cacheKey = S.me.cacheKey,
                      !.requests = S.me.requests,
                      !.outstanding = S.me.outstanding,
                      !.passes = S.me.passes,
                      !.rejected = S.me.rejected]]

\* A variant whose loop makes one pass more.
LoopTestInclusive(S, cfg) ==
  IF S.me.i <= cfg.similarity.semanticAttempts
    THEN StartWithRetry([S EXCEPT !.me.passes = @ + 1], cfg, "generate")
  ELSE ThrowOut(S, S.me.lastError)

\* The head of the for loop: another pass, or the final throw.
LoopTest(S, cfg) ==
  IF S.me.i < cfg.similarity.semanticAttempts
    THEN StartWithRetry([S EXCEPT !.me.passes = @ + 1], cfg, "generate")
  ELSE ThrowOut(S, IF S.me.lastError # NoError THEN S.me.lastError
                   ELSE NewError(S.me, PlainError(
                          "Unable to generate question in similarity window")))

\* A variant that keeps the first error of the invocation.
EndPassFirstError(S, cfg, error) ==
  LoopTest([S EXCEPT !.me.lastError = IF @ = NoError THEN error ELSE @,
                     !.me.i = @ + 1,
                     !.me.validated = Null, !.me.verified = Null,
                     !.me.retry = NoRetry], cfg)

\* A variant that starts the loop over.
EndPassStartsOver(S, cfg, error) ==
  LoopTest([S EXCEPT !.me.lastError = error, !.me.i = 0, !.me.passes = 0,
                     !.me.requests =
                        [generate |-> 0, verify |-> 0, embed |-> 0],
                     !.me.validated = Null, !.me.verified = Null,
                     !.me.retry = NoRetry], cfg)

\* A variant that does not count the pass.
EndPassKeepsAttempt(S, cfg, error) ==
  LoopTest([S EXCEPT !.me.lastError = error,
                     !.me.validated = Null, !.me.verified = Null,
                     !.me.retry = NoRetry], cfg)

\* The end of a pass without a return: lastError is set, the locals of the
\* pass go out of scope, i += 1.
EndPass(S, cfg, error) ==
  LoopTest([S EXCEPT !.me.lastError = error, !.me.i = @ + 1,
                     !.me.validated = Null, !.me.verified = Null,
                     !.me.retry = NoRetry], cfg)

\* A variant that does not look the key up.
EnterWithoutLookup(S, cfg, args) ==
  LET input == [ paragraph |-> args.paragraph,
                 detectedLanguage |->
                   detectLanguage(args.paragraph, args.language),
                 articleRef |-> args.articleRef,
                 paragraphTags |-> tagParagraphTopic(args.paragraph) ]
  IN LoopTest([S EXCEPT !.me = [IdleInvocation EXCEPT
                                  !.args = args, !.input = input,
                                  !.cacheKey = hashInput(input)]], cfg)

\* The body of generateFromParagraph up to its first suspension.
Enter(S, cfg, args) ==
  LET detectedLanguage == detectLanguage(args.paragraph, args.language)
      paragraphTags == tagParagraphTopic(args.paragraph)
      input == [ paragraph |-> args.paragraph,
                 detectedLanguage |-> detectedLanguage,
                 articleRef |-> args.articleRef,
                 paragraphTags |-> paragraphTags ]
      cacheKey == hashInput(input)
      T == [S EXCEPT !.me = [IdleInvocation EXCEPT
                               !.args = args, !.input = input,
                               !.cacheKey = cacheKey]]
  IN IF cacheKey \in DOMAIN S.cache
       THEN Return(T, S.cache[cacheKey])
     ELSE LoopTest(T, cfg)

\* withRetry threw: catch (error) { lastError = error; }
AfterThrow(S, cfg) == EndPass(S, cfg, S.me.retry.lastError)

\* A variant that sends the candidate to the verifier as it came.
AfterGenerateUnvalidated(S, cfg) ==
  StartWithRetry([S EXCEPT !.me.validated = S.me.retry.value], cfg, "verify")

\* The generator call returned: postValidate, then the verifier call.
AfterGenerate(S, cfg) ==
  LET v == postValidate(S.me.retry.value, S.me.args.paragraph,
                        S.me.input.paragraphTags, cfg)
  IN IF v.threw
       THEN EndPass(S, cfg, NewError(S.me, PlainError(v.message)))
     ELSE StartWithRetry([S EXCEPT !.me.validated = v.value], cfg, "verify")

\* A variant that does not look at the verdict.
AfterVerifyUnchecked(S, cfg) ==
  StartWithRetry([S EXCEPT !.me.verified = S.me.retry.value], cfg, "embed")

\* The verifier call returned.
AfterVerify(S, cfg) ==
  LET verified == S.me.retry.value
  IN IF ~verified.ok
       THEN EndPass(S, cfg, NewError(S.me, PlainError("Verification failed")))
     ELSE StartWithRetry([S EXCEPT !.me.verified = verified], cfg, "embed")

\* The similarity assessment returned: build the result, then accept
\* (cache and return), reject or revise. The throw of a reject is inside the
\* try block, so the catch of the pass takes it.
AfterSimilarity(S, cfg) ==
  LET similarity == S.me.retry.value
      me == S.me
      result == [ choicesIsArray |-> me.validated.choicesIsArray,
                  choices |-> me.validated.choices,
                  correct_label |-> me.validated.correct_label,
                  question |-> me.validated.question,
                  difficulty |-> me.validated.difficulty,
                  tags |-> me.validated.tags,
                  verification |-> me.verified,
                  overlap_score |->
                    ngramOverlap(me.args.paragraph, me.validated.question, 5),
                  similarity |-> similarity ]
  IN IF similarity.action = "accept"
       THEN Return([S EXCEPT !.cache = (me.cacheKey :> result) @@ S.cache],
                   result)
     ELSE IF similarity.action = "reject"
       THEN EndPass([S EXCEPT !.me.rejected = TRUE], cfg,
                    NewError(me, PlainError("Similarity rejected")))
     ELSE EndPass(S, cfg, NewError(me, PlainError("Similarity revise")))

(***************************************************************************)
(* Actions                                                                 *)
(***************************************************************************)

\* The step state of activation p.
Here(p) == [me |-> inv[p], cache |-> cache]

\* Activation p and the cache become those of the step state S.
Becomes(p, S) ==
  /\ inv' = [inv EXCEPT ![p] = S.me]
  /\ cache' = S.cache
  /\ UNCHANGED <<config, applied, http, batch, repair>>

\* A variant with a single-flight guard: the call waits while another
\* activation computes the same key.
CallSingleFlight(p, args) ==
  /\ inv[p].pc \in {"idle", "returned", "thrown"}
  /\ LET S == Enter(Here(p), config, args)
     IN IF \E q \in DOMAIN inv \ {p} :
               /\ inv[q].pc \in {"fetch", "sleep", "settled"}
               /\ inv[q].cacheKey = S.me.cacheKey
          THEN Becomes(p, [Here(p) EXCEPT !.me.pc = "waiting",
                                          !.me.args = args,
                                          !.me.cacheKey = S.me.cacheKey])
        ELSE Becomes(p, S)

\* A caller invokes generateFromParagraph(args) in a free activation.
Call(p, args) ==
  /\ inv[p].pc \in {"idle", "returned", "thrown"}
  /\ Becomes(p, Enter(Here(p), config, args))

\* The step state of activation p when the response to its request arrives
\* with the given status.
Answered(p, status) ==
  [Here(p) EXCEPT !.me.retry.status = status, !.me.outstanding = @ - 1]

\* The response of the request in flight is not ok: the gateway throws, and
\* withRetry sleeps or gives up.
FailedResponse(p, status, jitter) ==
  /\ inv[p].pc = "fetch"
  /\ ~ResponseOk(status)
  /\ LET S == Answered(p, status)
     IN Becomes(p, RetryCatch(S, config,
                     NewError(S.me, GatewayError(S.me.retry.op, status)),
                     jitter))

\* The response of callOpenAI is ok and carries no output text.
MissingOutput(p, status) ==
  /\ inv[p].pc = "fetch"
  /\ inv[p].retry.op \in {"generate", "verify"}
  /\ ResponseOk(status)
  /\ LET S == Answered(p, status)
     IN Becomes(p, RetryCatch(S, config, NewError(S.me, MissingOutputError), 0))

\* The sleep of withRetry is over.
WakeUp(p) ==
  /\ inv[p].pc = "sleep"
  /\ Becomes(p, RetryWakes(Here(p), config))

\* The generator call returns the object generated; withRetry returns it.
GenerateResponse(p, status, generated) ==
  /\ inv[p].pc = "fetch"
  /\ inv[p].retry.op = "generate"
  /\ ResponseOk(status)
  /\ LET S == Answered(p, status)
     IN Becomes(p, Settle(S, "returned", generated, S.me.retry.lastError))

\* The verifier call returns { ok }.
VerifyResponse(p, status, ok) ==
  /\ inv[p].pc = "fetch"
  /\ inv[p].retry.op = "verify"
  /\ ResponseOk(status)
  /\ LET S == Answered(p, status)
     IN Becomes(p, Settle(S, "returned", [ok |-> ok], S.me.retry.lastError))

\* The embeddings arrive; assessSimilarity scores the bank texts and returns.
EmbedResponse(p, status, cosines) ==
  /\ inv[p].pc = "fetch"
  /\ inv[p].retry.op = "embed"
  /\ ResponseOk(status)
  /\ LET S == Answered(p, status)
         bankTexts == BankTexts(S.me.args.existingQuestions)
     IN Becomes(p, Settle(S, "returned",
                          ScoredSimilarity(bankTexts, cosines,
                                           config.similarity),
                          S.me.retry.lastError))

\* The cosines an embeddings response can give for the corpus of p.
CosinesOf(p) ==
  IF inv[p].pc = "fetch" /\ inv[p].retry.op = "embed"
    THEN [1..Len(BankTexts(inv[p].args.existingQuestions)) -> CosineValues]
  ELSE {}

\* generateFromParagraph resumes after the withRetry call it awaited.
Resume(p) ==
  /\ inv[p].pc = "settled"
  /\ Becomes(p,
       IF inv[p].retry.settled = "thrown" THEN AfterThrow(Here(p), config)
       ELSE IF inv[p].retry.op = "generate"
         THEN AfterGenerate(Here(p), config)
       ELSE IF inv[p].retry.op = "verify" THEN AfterVerify(Here(p), config)
       ELSE AfterSimilarity(Here(p), config))

\* The cosines that make the similarity gate accept.
AcceptedCosinesOf(p) ==
  { cosines \in CosinesOf(p) :
      ScoredSimilarity(BankTexts(inv[p].args.existingQuestions), cosines,
                       config.similarity).action = "accept" }

InvInit ==
  /\ inv = [p \in Invocations |-> IdleInvocation]
  /\ cache = <<>>
  /\ applied = NoApplication
  /\ http = IdleHandler
  /\ batch = IdleBatch
  /\ repair = IdleRepair

(***************************************************************************)
(* Spec: one caller, which awaits each call before it makes the next, and  *)
(* a provider that may answer each request in any way.                     *)
(***************************************************************************)

Init == config \in ConfigPool /\ InvInit /\ throttled = 0

Next ==
  \/ UNCHANGED throttled /\ \E args \in ArgsPool : Call(1, args)
  \/ UNCHANGED throttled /\ WakeUp(1)
  \/ UNCHANGED throttled /\ Resume(1)
  \/ UNCHANGED throttled
       /\ \E status \in Statuses, jitter \in JitterValues :
             FailedResponse(1, status, jitter)
  \/ UNCHANGED throttled /\ \E status \in Statuses : MissingOutput(1, status)
  \/ UNCHANGED throttled
       /\ \E status \in Statuses, generated \in CandidatePool :
             GenerateResponse(1, status, generated)
  \/ UNCHANGED throttled
       /\ \E status \in Statuses, ok \in BOOLEAN :
             VerifyResponse(1, status, ok)
  \/ UNCHANGED throttled
       /\ \E status \in Statuses, cosines \in CosinesOf(1) :
             EmbedResponse(1, status, cosines)

Spec == Init /\ [][Next]_vars

(***************************************************************************)
(* SpecThrottled: the default configuration, one call of the pipeline, and *)
(* a provider that answers its first two requests with 429 and every later *)
(* one with a response that passes the gates.                              *)
(***************************************************************************)

InitThrottled == config = DEFAULT_CONFIG /\ InvInit /\ throttled = 2

NextThrottled ==
  \/ UNCHANGED throttled /\ inv[1].pc = "idle"
       /\ \E args \in ArgsPool : Call(1, args)
  \/ UNCHANGED throttled /\ WakeUp(1)
  \/ UNCHANGED throttled /\ Resume(1)
  \/ throttled > 0 /\ throttled' = throttled - 1
       /\ \E jitter \in JitterValues : FailedResponse(1, 429, jitter)
  \/ throttled = 0 /\ UNCHANGED throttled
       /\ GenerateResponse(1, 200, GoodCandidate)
  \/ throttled = 0 /\ UNCHANGED throttled /\ VerifyResponse(1, 200, TRUE)
  \/ throttled = 0 /\ UNCHANGED throttled
       /\ \E cosines \in AcceptedCosinesOf(1) : EmbedResponse(1, 200, cosines)

SpecThrottled == InitThrottled /\ [][NextThrottled]_vars

(***************************************************************************)
(* SpecHandler: the HTTP handler serves one request after the other with   *)
(* the shared cache and a service of the default configuration; the        *)
(* provider answers each request with 200 or with a failure that is not    *)
(* retried.                                                                *)
(***************************************************************************)

\* new AIQuestionService({apiKey, cache, config}): the constructor throws
\* without an API key, otherwise the service holds the merged configuration.
Construct(apiKey, cfg) ==
  [ threw |-> apiKey = "",
    message |-> IF apiKey = "" THEN "Missing OPENAI_API_KEY" ELSE "",
    config |-> cfg ]

\* new Response(JSON.stringify(body), {status, headers})
jsonResponse(status, body) == [status |-> status, body |-> body]

\* A JSON value of the request body is an absent member, a number or a string.
Absent == [type |-> "undefined"]

Number(n) == [type |-> "number", number |-> n]

String(text) == [type |-> "string", value |-> text]

\* !value
Falsy(value) ==
  \/ value.type = "undefined"
  \/ value.type = "number" /\ value.number = 0
  \/ value.type = "string" /\ Len(value.value) = 0

\* A request body with the paragraph p, the language l and the list of
\* existing questions e.
Body(p, l, e) ==
  [paragraph |-> p, language |-> l, article_ref |-> Absent,
   existing_questions |-> e]

NoList == [isArray |-> FALSE, items |-> <<>>]

\* The bodies parseJson returns: null for a body that is not JSON, and objects
\* whose paragraph is absent, a number, the empty string, "Aa" or "BB".
BodyPool ==
  { Null,
    Body(Absent, Absent, NoList),
    Body(Number(7), Absent, NoList),
    Body(String(<<>>), Absent, NoList),
    Body(String(<<65, 97>>), Absent, NoList),
    Body(String(<<65, 97>>), String("en"),
         [isArray |-> TRUE, items |-> << <<97, 32>>, <<98>> >>]),
    Body(String(<<66, 66>>), Absent, NoList) }

\* The requests: a GET, and a POST of each body.
RequestPool ==
  { [method |-> "GET", body |-> Null] }
    \cup { [method |-> "POST", body |-> b] : b \in BodyPool }

\* The values of process.env.OPENAI_API_KEY: unset, and a key.
ApiKeys == {"", "sk"}

\* The statuses the provider answers the handler's service with.
HandlerStatuses == {200, 400}

\* A variant that looks for the API key before it looks at the body.
EarlyResponseKeyFirst(body, apiKey) ==
  IF apiKey = ""
    THEN jsonResponse(500, [error |-> "missing_openai_api_key"])
  ELSE IF body = Null \/ Falsy(body.paragraph)
          \/ body.paragraph.type # "string"
    THEN jsonResponse(400, [error |-> "paragraph_required"])
  ELSE Null

\* The response handler returns after parseJson without calling the service,
\* Null when it goes on.
EarlyResponse(body, apiKey) ==
  IF body = Null \/ Falsy(body.paragraph) \/ body.paragraph.type # "string"
    THEN jsonResponse(400, [error |-> "paragraph_required"])
  ELSE IF apiKey = ""
    THEN jsonResponse(500, [error |-> "missing_openai_api_key"])
  ELSE Null

\* The argument handler passes to generateFromParagraph.
HandlerArgs(body) ==
  [ paragraph |-> body.paragraph.value,
    language |-> IF Falsy(body.language) THEN "pl" ELSE body.language.value,
    articleRef |-> IF Falsy(body.article_ref) THEN <<>>
                   ELSE body.article_ref.value,
    existingQuestions |-> IF body.existing_questions.isArray
                          THEN body.existing_questions.items ELSE <<>> ]

\* handler(req) up to await parseJson(req).
Receive(req) ==
  /\ http.pc \in {"idle", "responded"}
  /\ http' = IF req.method # "POST"
               THEN [IdleHandler EXCEPT
                       !.pc = "responded", !.req = req,
                       !.response =
                         jsonResponse(405, [error |-> "method_not_allowed"])]
             ELSE [IdleHandler EXCEPT !.pc = "parsing", !.req = req]
  /\ UNCHANGED <<config, cache, inv, throttled, applied, batch, repair>>

\* handler from the return of parseJson to its early return or to await
\* service.generateFromParagraph, whose body runs up to its first suspension.
Parsed(apiKey) ==
  /\ http.pc = "parsing"
  /\ LET early == EarlyResponse(http.req.body, apiKey)
         S == Enter(Here(1), config, HandlerArgs(http.req.body))
     IN IF early # Null
          THEN /\ http' = [http EXCEPT !.pc = "responded", !.apiKey = apiKey,
                                       !.response = early]
               /\ UNCHANGED <<inv, cache>>
        ELSE /\ http' = [http EXCEPT !.pc = "awaiting", !.apiKey = apiKey]
             /\ inv' = [inv EXCEPT ![1] = S.me]
             /\ cache' = S.cache
  /\ UNCHANGED <<config, throttled, applied, batch, repair>>

\* handler after await service.generateFromParagraph: the try block returns
\* the result, the catch block the message of the error.
Respond ==
  /\ http.pc = "awaiting"
  /\ inv[1].pc \in {"returned", "thrown"}
  /\ http' = [http EXCEPT
               !.pc = "responded",
               !.response =
                 IF inv[1].pc = "returned"
                   THEN jsonResponse(200, inv[1].result)
                 ELSE jsonResponse(422, [error |-> "generation_failed",
                                         message |-> inv[1].error.message])]
  /\ UNCHANGED <<config, cache, inv, throttled, applied, batch, repair>>

InitHandler == config = DEFAULT_CONFIG /\ InvInit /\ throttled = 0

NextHandler ==
  \/ \E req \in RequestPool : Receive(req)
  \/ \E apiKey \in ApiKeys : Parsed(apiKey)
  \/ Respond
  \/ UNCHANGED throttled /\ Resume(1)
  \/ UNCHANGED throttled
       /\ \E status \in HandlerStatuses, jitter \in JitterValues :
             FailedResponse(1, status, jitter)
  \/ UNCHANGED throttled
       /\ \E status \in HandlerStatuses : MissingOutput(1, status)
  \/ UNCHANGED throttled
       /\ \E status \in HandlerStatuses, generated \in CandidatePool :
             GenerateResponse(1, status, generated)
  \/ UNCHANGED throttled
       /\ \E status \in HandlerStatuses, ok \in BOOLEAN :
             VerifyResponse(1, status, ok)
  \/ UNCHANGED throttled
       /\ \E status \in HandlerStatuses, cosines \in CosinesOf(1) :
             EmbedResponse(1, status, cosines)

SpecHandler == InitHandler /\ [][NextHandler]_vars

(***************************************************************************)
(* SpecBatch: one run of the batch generator, with or without an API key,  *)
(* a cache directory that may hold a result of an earlier run, and a       *)
(* provider that may answer each request in any way.                       *)
(***************************************************************************)

\* opts.count, the number of iterations of the while loop of main.
BatchCount == 2

\* opts.maxAttempts, which no command-line option changes.
BatchMaxAttempts == 5

\* The options of parseArgs that main and generateAndValidate test; the
\* thresholds are in hundredths.
opts ==
  [ count |-> BatchCount, maxAttempts |-> BatchMaxAttempts,
    minConfidence |-> 85, maxSimToStyleRef |-> 55, maxSimToExisting |-> 60 ]

\* normalizeText of the script: lower case, every character other than a
\* letter a-z, a digit, a Polish letter or white space becomes a space, runs
\* of white space collapse, trim.
normalizeTextOfScript(s) ==
  LET Kept(c) ==
        IF \/ c \in (97..122) \cup (48..57)
           \/ c \in {261, 263, 281, 322, 324, 243, 347, 378, 380}
           \/ IsSpace(c)
        THEN c
        ELSE 32
  IN Trim(CollapseSpaces([k \in 1..Len(s) |-> Kept(toLowerCase(s[k]))]))

\* tokenSet(s): the words of at least 4 characters.
tokenSet(s) ==
  LET n == normalizeTextOfScript(s)
  IN IF n = <<>> THEN {}
     ELSE { w \in ToSet(SplitOnSpace(n)) : Len(w) >= 4 }

\* jaccard(a, b), as a ratio.
jaccard(a, b) ==
  LET Measure(A, B) ==
        IF A = {} \/ B = {} THEN Ratio(0, 1)
        ELSE Ratio(Cardinality(A \cap B), Cardinality(A \cup B))
  IN CHOOSE r \in
       UNION { { Measure(A, B) : B \in {tokenSet(b)} } : A \in {tokenSet(a)} } :
         TRUE

\* maxSimilarityToList(questionText, list): the largest jaccard to a text of
\* the list that is not empty, 0 for none.
maxSimilarityToList(questionText, list) ==
  LET sims == { jaccard(questionText, list[k]) :
                  k \in { j \in 1..Len(list) : list[j] # <<>> } }
  IN IF sims = {} THEN Ratio(0, 1)
     ELSE CHOOSE r \in sims :
            \A q \in sims : q.num * r.den <= r.num * q.den

\* sanitizeQuestionText(text): runs of white space become one space, trim.
\* The two replacements of article numbers act on "Article" or "Art."
\* followed by digits, which no text of the model contains.
sanitizeQuestionText(text) == Trim(CollapseSpaces(text))

\* The questions the generator model returns: "Abcd, efgh ijkl mnop qrst?",
\* "abcd efgh  ijkl mnop uvwx" (4 of 6 words shared with the first),
\* "stuv wxyz ponm lkji hgfe" (no word shared) and "abcd efgh?" (too short).
FirstQuestion == <<65, 98, 99, 100, 44, 32, 101, 102, 103, 104, 32, 105, 106, 107, 108, 32, 109, 110, 111, 112, 32, 113, 114, 115, 116, 63>>

CloseQuestion == <<97, 98, 99, 100, 32, 101, 102, 103, 104, 32, 32, 105, 106, 107, 108, 32, 109, 110, 111, 112, 32, 117, 118, 119, 120>>

OtherQuestion == <<115, 116, 117, 118, 32, 119, 120, 121, 122, 32, 112, 111, 110, 109, 32, 108, 107, 106, 105, 32, 104, 103, 102, 101>>

ShortQuestion == <<97, 98, 99, 100, 32, 101, 102, 103, 104, 63>>

\* The answers of the generator call: it throws, or returns an object with a
\* question; shaped tells whether its choices are 4 unique strings and its
\* correct_index is an integer within 0..3.
GeneratorAnswers ==
  { [threw |-> TRUE, question |-> <<>>, shaped |-> FALSE] }
    \cup [ threw : {FALSE},
           question : {FirstQuestion, CloseQuestion, OtherQuestion,
                       ShortQuestion},
           shaped : {TRUE} ]
    \cup { [threw |-> FALSE, question |-> OtherQuestion, shaped |-> FALSE] }

\* The answers of the validator call: it throws, or returns a verdict; ok is
\* the JSON value of the verdict ("yes" is a string, which is not true), the
\* confidence is in hundredths.
ValidatorAnswers ==
  { [threw |-> TRUE, ok |-> "false", confidence |-> 0] }
    \cup { [threw |-> FALSE, ok |-> "true", confidence |-> 90],
           [threw |-> FALSE, ok |-> "true", confidence |-> 85],
           [threw |-> FALSE, ok |-> "true", confidence |-> 84],
           [threw |-> FALSE, ok |-> "false", confidence |-> 90],
           [threw |-> FALSE, ok |-> "yes", confidence |-> 90] }

\* A result of generateAndValidate: the question of result.generated, and ok
\* and confidence of result.validated.
Result(question, ok, confidence) ==
  [question |-> question, ok |-> ok, confidence |-> confidence]

\* The result main builds when generateAndValidate throws: generated is null.
FailedResult == [question |-> <<>>, ok |-> "false", confidence |-> 0]

\* The cache keys: one per payload (topic, GDPR fragment, style references)
\* that an iteration may draw.
BatchKeys == {1, 2}

\* The style references of the payload of a key.
StyleRefs(key) == IF key = 2 THEN << OtherQuestion >> ELSE <<>>

\* The cache directories at the start of a run, each key with no file or the
\* result of an earlier run: empty, or holding for the first key an accepted
\* result or a refused one.
CacheDirs ==
  { [k \in BatchKeys |-> <<>>],
    [k \in BatchKeys |->
       IF k = 1 THEN << Result(sanitizeQuestionText(CloseQuestion), "true", 90) >>
       ELSE <<>>],
    [k \in BatchKeys |->
       IF k = 1 THEN << Result(ShortQuestion, "false", 20) >> ELSE <<>>] }

\* The questions of the items of the existing output file: none, one, or an
\* item without question before one.
ExistingOuts ==
  { <<>>, << FirstQuestion >>, << <<32>>, sanitizeQuestionText(FirstQuestion) >> }

\* The batch generator changes, everything else stays.
BatchBecomes(b) ==
  /\ batch' = b
  /\ UNCHANGED <<config, cache, inv, throttled, applied, http, repair>>

\* main: the test of the for loop of an iteration; after the last attempt the
\* iteration is given up ("move on").
NextAttempt(b) ==
  IF b.attempt < opts.maxAttempts THEN [b EXCEPT !.pc = "cache"]
  ELSE [b EXCEPT !.pc = "loop", !.generatedCount = @ + 1]

\* buildAiItem, with the history of the item: whether it was loaded from the
\* output file or appended in this run, the verdict of its result, and
\* whether the result was read from the cache directory.
AiItem(question, origin, result, cached) ==
  [ question |-> question, origin |-> origin, ok |-> result.ok,
    confidence |-> result.confidence, cached |-> cached ]

\* A variant that accepts every verdict with ok true.
AcceptsAnyConfidence(result) == result.ok = "true"

\* ok && conf >= opts.minConfidence
Accepts(result) ==
  result.ok = "true" /\ result.confidence >= opts.minConfidence

\* A variant that appends every accepted question.
DuplicatesNone(question, existingAiQuestions) == FALSE

\* simToExistingAi > opts.maxSimToExisting
Duplicates(question, existingAiQuestions) ==
  RatioExceeds(maxSimilarityToList(question, existingAiQuestions),
               opts.maxSimToExisting)

\* main after generateAndValidate returned or threw: an accepted result ends
\* the attempts; its question is dropped when it is too similar to an
\* existing one, and appended otherwise. Any other result makes main go on
\* with the next attempt.
Judge(b, result, cached) ==
  IF Accepts(result)
    THEN IF Duplicates(result.question, b.existingAiQuestions)
           THEN [b EXCEPT !.pc = "loop", !.generatedCount = @ + 1]
         ELSE [b EXCEPT
                 !.pc = "loop", !.generatedCount = @ + 1,
                 !.items =
                    Append(@, AiItem(sanitizeQuestionText(result.question),
                                     "run", result, cached)),
                 !.existingAiQuestions =
                    Append(@, sanitizeQuestionText(result.question))]
  ELSE NextAttempt([b EXCEPT !.attempt = @ + 1])

\* callOpenAiJson up to its fetch: it throws without an API key, and main
\* catches the error as a refused result.
callOpenAiJson(b, op) ==
  IF b.apiKey = "" THEN Judge(b, FailedResult, FALSE)
  ELSE [b EXCEPT !.pc = op, !.fetches = @ + 1]

\* writeCache(opts.cacheDir, cacheKey, result); return result
CacheAndReturn(b, result) ==
  Judge([b EXCEPT !.cacheDir[b.key] = << result >>], result, FALSE)

\* node scripts/generate_ai_questions.js: main loads its input files; a
\* missing knowledge file makes main reject and the process exit with 1.
\* The items of the existing output file start the item list, and their
\* trimmed questions that are not empty start existingAiQuestions.
BatchStart(apiKey, cacheDir, existing, loaded) ==
  /\ batch.pc = "idle"
  /\ BatchBecomes(
       IF loaded
         THEN [batch EXCEPT
                 !.pc = "loop", !.apiKey = apiKey, !.cacheDir = cacheDir,
                 !.items = [k \in 1..Len(existing) |->
                              AiItem(existing[k], "loaded", FailedResult,
                                     FALSE)],
                 !.existingAiQuestions =
                    SelectSeq([k \in 1..Len(existing) |-> Trim(existing[k])],
                              LAMBDA q : q # <<>>)]
       ELSE [batch EXCEPT !.pc = "exited", !.apiKey = apiKey,
                          !.cacheDir = cacheDir, !.exitCode = 1])

\* main: the test of the while loop. An iteration draws its payload and
\* starts its first attempt; after the last iteration main writes the
\* output file and the process exits with 0.
BatchLoop(key) ==
  /\ batch.pc = "loop"
  /\ BatchBecomes(IF batch.generatedCount < opts.count
                    THEN NextAttempt([batch EXCEPT !.key = key, !.attempt = 0])
                  ELSE [batch EXCEPT !.pc = "exited", !.written = TRUE,
                                     !.exitCode = 0])

\* generateAndValidate after await readCache: a cached result is returned,
\* otherwise the generator is called.
CacheRead ==
  /\ batch.pc = "cache"
  /\ BatchBecomes(IF batch.cacheDir[batch.key] # <<>>
                    THEN Judge(batch, batch.cacheDir[batch.key][1], TRUE)
                  ELSE callOpenAiJson(batch, "generate"))

\* The generator call ends. It throws, or generateAndValidate checks the
\* shape of the question and its similarity to the style references and to
\* the existing questions: with an issue the refused result is cached and
\* returned, without one the validator is called.
GeneratorAnswer(answer) ==
  /\ batch.pc = "generate"
  /\ BatchBecomes(
       IF answer.threw THEN Judge(batch, FailedResult, FALSE)
       ELSE LET qText == sanitizeQuestionText(answer.question)
                issues ==
                  \/ Len(qText) < 20
                  \/ ~answer.shaped
                  \/ RatioExceeds(
                       maxSimilarityToList(qText, StyleRefs(batch.key)),
                       opts.maxSimToStyleRef)
                  \/ RatioExceeds(
                       maxSimilarityToList(qText, batch.existingAiQuestions),
                       opts.maxSimToExisting)
            IN IF issues
                 THEN CacheAndReturn(batch, Result(qText, "false", 20))
               ELSE callOpenAiJson([batch EXCEPT !.qText = qText],
                                   "validate"))

\* The validator call ends: it throws, or its verdict is cached and returned
\* with the question.
ValidatorAnswer(answer) ==
  /\ batch.pc = "validate"
  /\ BatchBecomes(
       IF answer.threw THEN Judge(batch, FailedResult, FALSE)
       ELSE CacheAndReturn(batch, Result(batch.qText, answer.ok,
                                         answer.confidence)))

InitBatch == config = DEFAULT_CONFIG /\ InvInit /\ throttled = 0

NextBatch ==
  \/ \E apiKey \in ApiKeys, cacheDir \in CacheDirs, existing \in ExistingOuts,
          loaded \in BOOLEAN :
       BatchStart(apiKey, cacheDir, existing, loaded)
  \/ \E key \in BatchKeys : BatchLoop(key)
  \/ CacheRead
  \/ \E answer \in GeneratorAnswers : GeneratorAnswer(answer)
  \/ \E answer \in ValidatorAnswers : ValidatorAnswer(answer)

SpecBatch == InitBatch /\ [][NextBatch]_vars

(***************************************************************************)
(* SpecRepair: one run of the OCR repair script over the selected          *)
(* questions, with a repair cache that may hold entries of an earlier run  *)
(* and a model that may answer each request in any way.                    *)
(***************************************************************************)

\* The largest number of selected questions.
MaxRepairItems == 3

\* The labels of the choices of a question.
LabelsABCD == <<"A", "B", "C", "D">>

\* The normalized question at k: its id, its text, its correct_label (A for
\* the odd ones, B for the even ones), the labels of its choices, and whether
\* isSuspicious holds for it.
QuestionAt(k, suspicious) ==
  [ id |-> k, text |-> "ocr", correct_label |-> IF k % 2 = 1 THEN "A" ELSE "B",
    labels |-> LabelsABCD, suspicious |-> suspicious ]

\* The lists of selected questions; the id of a question identifies it, so
\* the ids are distinct.
SelectedPool ==
  UNION { { [k \in 1..n |-> QuestionAt(k, k \in S)] : S \in SUBSET (1..n) } :
            n \in 0..MaxRepairItems }

\* The values of --concurrency.
Concurrencies == {0, 1, 2, 3}

\* What the model call of a worker gives: withRetry throws, or returns the
\* parsed repair, which may be no object, and otherwise has the labels of its
\* choices, a correct_label and a text ("" when the text is empty).
Repair(isObject, labels, correct_label, text) ==
  [ threw |-> FALSE, isObject |-> isObject, labels |-> labels,
    correct_label |-> correct_label, text |-> text ]

RepairAnswers ==
  { [threw |-> TRUE, isObject |-> FALSE, labels |-> <<>>,
     correct_label |-> "", text |-> ""],
    Repair(FALSE, <<>>, "", ""),
    Repair(TRUE, LabelsABCD, "A", "fixed"),
    Repair(TRUE, LabelsABCD, "B", "fixed"),
    Repair(TRUE, LabelsABCD, "A", ""),
    Repair(TRUE, <<"B", "A", "C", "D">>, "A", "fixed"),
    Repair(TRUE, <<"A", "A", "C", "D">>, "A", "fixed"),
    Repair(TRUE, <<"A", "B", "C">>, "B", "fixed") }

\* The repair caches loaded at the start, per selected question: empty, or
\* holding for the first question the repair an earlier run appended, which
\* validateRepair had accepted for this question.
CacheFiles(n) ==
  { [k \in 1..n |-> <<>>],
    [k \in 1..n |->
       IF k = 1 THEN << Repair(TRUE, LabelsABCD, QuestionAt(1, TRUE).correct_label,
                               "cached") >>
       ELSE <<>>] }

\* A variant that checks the labels only.
validateRepairLabelsOnly(original, repaired) ==
  /\ repaired.isObject
  /\ Len(repaired.labels) = 4
  /\ Cardinality(ToSet(repaired.labels)) = 4
  /\ \A label \in ToSet(LabelsABCD) : label \in ToSet(repaired.labels)

\* validateRepair(original, repaired): TRUE when it returns, FALSE when it
\* throws.
validateRepair(original, repaired) ==
  /\ repaired.isObject
  /\ Len(repaired.labels) = 4
  /\ Cardinality(ToSet(repaired.labels)) = 4
  /\ \A label \in ToSet(LabelsABCD) : label \in ToSet(repaired.labels)
  /\ repaired.correct_label = original.correct_label

\* A question of the output: the fields of the question with the labels of
\* its choices and source.origin.
Emitted(question, text, labels, origin) ==
  [ id |-> question.id, text |-> text,
    correct_label |-> question.correct_label, labels |-> labels,
    origin |-> origin ]

\* toLegacyQuestion(original, repaired); text: normalizeText(repaired.text)
\* || original.text
toLegacyQuestion(original, repaired) ==
  Emitted(original, IF repaired.text = "" THEN original.text ELSE repaired.text,
          repaired.labels, "ai_repair")

\* The repair script changes, everything else stays.
RepairBecomes(rp) ==
  /\ repair' = rp
  /\ UNCHANGED <<config, cache, inv, throttled, applied, http, batch>>

\* A runner at the test of its while loop: with an index left it takes it
\* and calls the worker, which runs up to its first await: a question that
\* is not suspicious and a question with a cached repair give their value at
\* once, any other question makes the worker call the model.
RunnerLoop(rp, r) ==
  IF rp.index < Len(rp.selected)
    THEN LET current == rp.index + 1
             question == rp.selected[current]
             value ==
               IF ~question.suspicious
                 THEN << Emitted(question, question.text, question.labels,
                                 "normalized") >>
               ELSE IF rp.cache[current] # <<>>
                 THEN << toLegacyQuestion(question, rp.cache[current][1]) >>
               ELSE <<>>
         IN [rp EXCEPT
               !.index = @ + 1,
               !.calls[current] = @ + 1,
               !.runners[r] = [pc |-> IF value = <<>> THEN "api" ELSE "await",
                               current |-> current, value |-> value]]
  ELSE [rp EXCEPT !.runners[r].pc = "done"]

\* Array.from({ length: Math.max(1, limit) }, async () => ...): the runners
\* from r on start one after the other, each up to its first await.
RECURSIVE StartRunners(_, _)
StartRunners(rp, r) ==
  IF r > Len(rp.runners) THEN rp
  ELSE StartRunners(RunnerLoop(rp, r), r + 1)

\* main calls runWithConcurrency(selected, concurrency, worker).
runWithConcurrency(selected, limit, cacheFile) ==
  /\ repair.pc = "idle"
  /\ RepairBecomes(
       StartRunners(
         [repair EXCEPT
            !.pc = "running", !.selected = selected, !.limit = limit,
            !.results = [k \in 1..Len(selected) |-> <<>>],
            !.runners = [r \in 1..(IF limit > 1 THEN limit ELSE 1) |->
                           [pc |-> "new", current |-> 0, value |-> <<>>]],
            !.cache = cacheFile,
            !.calls = [k \in 1..Len(selected) |-> 0],
            !.replies = [k \in 1..Len(selected) |-> <<>>]],
         1))

\* The model call of the worker of runner r ends. An error, and a repair
\* that validateRepair refuses, give the question with origin "failed" and
\* an entry in errors; a valid repair is appended to the cache and gives the
\* repaired question.
WorkerAnswer(r, answer) ==
  /\ repair.pc = "running"
  /\ r \in 1..Len(repair.runners)
  /\ repair.runners[r].pc = "api"
  /\ LET current == repair.runners[r].current
         question == repair.selected[current]
     IN RepairBecomes(
          IF answer.threw \/ ~validateRepair(question, answer)
            THEN [repair EXCEPT
                    !.replies[current] = << answer >>,
                    !.errors = Append(@, question.id),
                    !.runners[r].pc = "await",
                    !.runners[r].value =
                       << Emitted(question, question.text, question.labels,
                                  "failed") >>]
          ELSE [repair EXCEPT
                  !.replies[current] = << answer >>,
                  !.cache[current] = << answer >>,
                  !.runners[r].pc = "await",
                  !.runners[r].value =
                     << toLegacyQuestion(question, answer) >>])

\* A variant that stores the result at the shared index.
RunnerResumesAtIndex(r) ==
  /\ repair.pc = "running"
  /\ r \in 1..Len(repair.runners)
  /\ repair.runners[r].pc = "await"
  /\ RepairBecomes(
       RunnerLoop([repair EXCEPT !.results[repair.index + 1] =
                                    repair.runners[r].value], r))

\* results[current] = await worker(...): runner r resumes with the value of
\* its worker, stores it and tests its loop again.
RunnerResumes(r) ==
  /\ repair.pc = "running"
  /\ r \in 1..Len(repair.runners)
  /\ repair.runners[r].pc = "await"
  /\ RepairBecomes(
       RunnerLoop([repair EXCEPT !.results[repair.runners[r].current] =
                                    repair.runners[r].value], r))

\* await Promise.all(runners) resumes once every runner is done; main merges
\* the results into the questions by id and writes the output file.
RepairWrites ==
  /\ repair.pc = "running"
  /\ \A r \in 1..Len(repair.runners) : repair.runners[r].pc = "done"
  /\ RepairBecomes(
       [repair EXCEPT
          !.pc = "written",
          !.written =
             [k \in 1..Len(repair.selected) |->
                LET same == { j \in 1..Len(repair.results) :
                                /\ repair.results[j] # <<>>
                                /\ repair.results[j][1].id =
                                     repair.selected[k].id }
                IN IF same = {} THEN <<>> ELSE repair.results[SetMax(same)]]])

InitRepair == config = DEFAULT_CONFIG /\ InvInit /\ throttled = 0

NextRepair ==
  \/ \E selected \in SelectedPool, limit \in Concurrencies :
       \E cacheFile \in CacheFiles(Len(selected)) :
         runWithConcurrency(selected, limit, cacheFile)
  \/ \E r \in 1..MaxRepairItems, answer \in RepairAnswers :
       WorkerAnswer(r, answer)
  \/ \E r \in 1..MaxRepairItems : RunnerResumes(r)
  \/ RepairWrites

SpecRepair == InitRepair /\ [][NextRepair]_vars

(***************************************************************************)
(* SpecConcurrent: two activations of generateFromParagraph run            *)
(* concurrently on the shared cache, each suspended at its own await; the  *)
(* service makes one pass of one try, and the provider answers each        *)
(* request with 200 or with a failure that is not retried.                 *)
(***************************************************************************)

\* The two activations that run concurrently.
Concurrent == {1, 2}

\* The arguments of the concurrent invocations: both paragraphs, without a
\* corpus or with one of two texts.
ConcurrentArgs == { args \in ArgsPool : Len(args.existingQuestions) # 1 }

InitConcurrent == config = Configured(1, 1, 300) /\ InvInit /\ throttled = 0

NextConcurrent ==
  \/ UNCHANGED throttled
       /\ \E p \in Concurrent, args \in ConcurrentArgs : Call(p, args)
  \/ UNCHANGED throttled /\ \E p \in Concurrent : Resume(p)
  \/ UNCHANGED throttled
       /\ \E p \in Concurrent, status \in HandlerStatuses,
             jitter \in JitterValues :
             FailedResponse(p, status, jitter)
  \/ UNCHANGED throttled
       /\ \E p \in Concurrent, status \in HandlerStatuses :
             MissingOutput(p, status)
  \/ UNCHANGED throttled
       /\ \E p \in Concurrent, status \in HandlerStatuses,
             generated \in CandidatePool :
             GenerateResponse(p, status, generated)
  \/ UNCHANGED throttled
       /\ \E p \in Concurrent, status \in HandlerStatuses, ok \in BOOLEAN :
             VerifyResponse(p, status, ok)
  \/ UNCHANGED throttled
       /\ \E p \in Concurrent, status \in HandlerStatuses :
             \E cosines \in CosinesOf(p) : EmbedResponse(p, status, cosines)

SpecConcurrent == InitConcurrent /\ [][NextConcurrent]_vars

(***************************************************************************)
(* SpecPure: the exported pure functions, each applied to arguments drawn  *)
(* from a bounded set. The pipeline stays in its initial state.            *)
(***************************************************************************)

\* The function fn is applied to args and returns result. One behaviour makes
\* one application.
Applies(fn, args, result) ==
  /\ applied = NoApplication
  /\ applied' = [fn |-> fn, args |-> args, result |-> result]
  /\ UNCHANGED <<config, cache, inv, throttled, http, batch, repair>>

\* The values a similarity threshold takes, in hundredths.
ThresholdValues == {30, 60, 90}

\* The similarity configurations: the default one, and every combination of
\* the threshold values, in any order of size.
ThresholdPool ==
  { DEFAULT_CONFIG.similarity }
    \cup { [DEFAULT_CONFIG.similarity EXCEPT
              !.duplicateThreshold = d, !.tooFarThreshold = f,
              !.targetMin = lo, !.targetMax = hi] :
            d \in ThresholdValues, f \in ThresholdValues,
            lo \in ThresholdValues, hi \in ThresholdValues }

\* The cosines of two vectors, in hundredths.
CosineRange == -100..100

\* decideSimilarityAction(maxCosine, cfg)
Decide(maxCosine, cfg) ==
  Applies("decideSimilarityAction", [maxCosine |-> maxCosine, cfg |-> cfg],
          decideSimilarityAction(maxCosine, cfg))

\* The labels and the texts of the choices of a question: "a", "A", "b",
\* "b!", "c".
ChoiceLabels == {"A", "B", "C", "D", "E"}
ChoiceTexts == { <<97>>, <<65>>, <<98>>, <<98, 33>>, <<99>> }
ChoicePool == [label : ChoiceLabels, text : ChoiceTexts]

\* The choice lists: those of GoodCandidate with one choice replaced, with
\* the last one dropped, or with one more, and the empty list.
ChoiceLists ==
  { [GoodCandidate.choices EXCEPT ![k] = c] : k \in 1..4, c \in ChoicePool }
    \cup { Append(GoodCandidate.choices, c) : c \in ChoicePool }
    \cup { SubSeq(GoodCandidate.choices, 1, 3), <<>> }

\* The questions validateChoiceIntegrity is applied to; one has no choices
\* array.
QuestionPool ==
  { [GoodCandidate EXCEPT !.choices = list, !.correct_label = correct] :
      list \in ChoiceLists, correct \in {"A", "E", "Z"} }
    \cup { [GoodCandidate EXCEPT !.choicesIsArray = FALSE, !.choices = <<>>] }

\* validateChoiceIntegrity(question)
Validate(question) ==
  Applies("validateChoiceIntegrity", question,
          validateChoiceIntegrity(question))

\* The questions estimateDifficulty is applied to are built from four parts:
\* a negation part (nothing, the word "NIE", or the word "nieb", which only
\* begins like a marker), a scenario part (nothing or "Podmiot,"), a run of
\* the letter a and a run of exclamation marks.
NegationParts == { <<>>, <<78, 73, 69, 32>>, <<110, 105, 101, 98, 32>> }

ScenarioParts == { <<>>, <<80, 111, 100, 109, 105, 111, 116, 44, 32>> }

\* The lengths of the run of letters: none, and the lengths with which the
\* normalized text passes 180 and 320 code units whatever the other parts.
FillLengths == {0} \cup (155..181) \cup (295..321)

\* The lengths of the run of exclamation marks.
PaddingLengths == {0, 200}

Repeat(c, n) == [k \in 1..n |-> c]

DifficultyPool ==
  [ negation : NegationParts, scenario : ScenarioParts, fill : FillLengths,
    padding : PaddingLengths, choices : {<<>>, GoodCandidate.choices} ]

QuestionText(x) ==
  x.negation \o x.scenario \o Repeat(97, x.fill) \o Repeat(33, x.padding)

\* estimateDifficulty(questionText, choices)
Estimate(x) ==
  Applies("estimateDifficulty", x,
          estimateDifficulty(QuestionText(x), x.choices))

\* The texts ngramOverlap is applied to are written from lists of words: at
\* most MaxTokens words, the first text over two words and the second over
\* three, and n-grams of at most MaxN words.
MaxTokens == 3

MaxN == 2

WordLists(words) == UNION { [1..k -> words] : k \in 0..MaxTokens }

FirstWords == { <<97>>, <<98>> }

SecondWords == { <<97>>, <<98>>, <<99>> }

\* A text of the words: joined by single spaces, or in upper case, each word
\* followed by a comma and two spaces, after an exclamation mark.
Written(words, noisy) ==
  IF noisy
  THEN LET F[k \in 0..Len(words)] ==
             IF k = 0 THEN <<33, 32>>
             ELSE F[k - 1] \o [j \in 1..Len(words[k]) |-> words[k][j] - 32]
                           \o <<44, 32, 32>>
       IN F[Len(words)]
  ELSE JoinWithSpace(words)

\* ngramOverlap(a, b, n)
Overlap(x) ==
  Applies("ngramOverlap", x,
          ngramOverlap(Written(x.a, x.noisy), Written(x.b, FALSE), x.n))

\* The texts normalizeText is applied to: at most MaxTextLength code units
\* among a lower-case and an upper-case letter, a digit, a space, a no-break
\* space, an exclamation mark, e-acute, l-stroke, sharp s and the trade mark
\* sign.
MaxTextLength == 3

TextUnits == {97, 65, 49, 32, 160, 33, 233, 322, 223, 8482}

TextPool == UNION { [1..k -> TextUnits] : k \in 0..MaxTextLength }

\* normalizeText(input)
Normalize(input) == Applies("normalizeText", input, normalizeText(input))

\* postValidate is applied to questions copied from the paragraph. The
\* paragraph is written from the first words of SourceWords, at most
\* MaxParagraphTokens of them, all different: "b", "c", "d" and so on.
MaxParagraphTokens == 9

SourceWords == [k \in 1..MaxParagraphTokens |-> <<97 + k>>]

\* The candidate whose question is the run of len words of the paragraph from
\* the word at first. The word "nie" in a choice raises the estimated
\* difficulty to 2, so that the difficulty gate lets the candidate pass.
CopiedCandidate(first, len) ==
  [GoodCandidate EXCEPT
     !.question = JoinWithSpace(SubSeq(SourceWords, first, first + len - 1)),
     !.choices[1].text = <<110, 105, 101>>]

\* The copies: a paragraph of tokens words and a run of at least 4 of them.
CopyPool ==
  { [tokens |-> tokens, first |-> first, len |-> len] :
      tokens \in 4..MaxParagraphTokens, first \in 1..MaxParagraphTokens,
      len \in 4..MaxParagraphTokens } \cap
  { x \in [tokens : Nat, first : Nat, len : Nat] :
      x.first + x.len - 1 <= x.tokens }

\* postValidate(candidate, paragraph, paragraphTags)
Gate(x) ==
  Applies("postValidate", x,
          postValidate(CopiedCandidate(x.first, x.len),
                       JoinWithSpace(SubSeq(SourceWords, 1, x.tokens)),
                       <<"rights">>, config).threw)

\* assessSimilarity is applied to corpora of distinct one-letter texts: the
\* text at k is the letter of code 256 + k, or a blank when k is blankAt.
\* The sizes lie around the 400 texts the function keeps.
CorpusText(k) == <<256 + k>>

Corpus(size, blankAt) ==
  [k \in 1..size |-> IF k = blankAt THEN <<32>> ELSE CorpusText(k)]

\* The corpora, with topK and the corpus text whose embedding is the closest
\* to the candidate (the text at closest; none when the corpus is shorter).
\* The corpora of two texts go with every topK, those around 400 texts with
\* topK 1 and 2.
AssessPool ==
  [ size : {0, 2}, blankAt : {0, 1}, closest : {1, 2}, topK : {0, 1, 2} ]
    \cup [ size : {400, 402}, blankAt : {0, 1}, closest : {2, 401, 402},
           topK : {1} ]
    \cup [ size : {402}, blankAt : {1}, closest : {401}, topK : {2} ]

\* assessSimilarity from bankTexts on, with a provider whose embeddings give
\* the cosine 95 for the text closest and 50 for every other text: the texts
\* it embeds, their cosines and its assessment.
AssessBank(bankTexts, closest, cfg) ==
  LET Scored(cosines) ==
        [ texts |-> bankTexts, cosines |-> cosines,
          similarity |-> IF bankTexts = <<>> THEN SkippedSimilarity
                         ELSE ScoredSimilarity(bankTexts, cosines, cfg) ]
  IN Scored([j \in 1..Len(bankTexts) |->
               IF bankTexts[j] = closest THEN 95 ELSE 50])

\* assessSimilarity(questionText, existingQuestions)
Assess(x) ==
  \E r \in { AssessBank(BankTexts(Corpus(x.size, x.blankAt)),
                        CorpusText(x.closest),
                        [DEFAULT_CONFIG.similarity EXCEPT !.topK = x.topK]) } :
    Applies("assessSimilarity",
            [size |-> x.size, blankAt |-> x.blankAt, topK |-> x.topK,
             cosines |-> r.cosines],
            [texts |-> r.texts, similarity |-> r.similarity])

InitPure == config = DEFAULT_CONFIG /\ InvInit /\ throttled = 0

NextPure ==
  \/ \E maxCosine \in CosineRange, cfg \in ThresholdPool :
       Decide(maxCosine, cfg)
  \/ \E question \in QuestionPool : Validate(question)
  \/ \E x \in DifficultyPool : Estimate(x)
  \/ \E a \in WordLists(FirstWords), b \in WordLists(SecondWords),
          noisy \in BOOLEAN, n \in 1..MaxN :
       Overlap([a |-> a, b |-> b, noisy |-> noisy, n |-> n])
  \/ \E input \in TextPool : Normalize(input)
  \/ \E x \in CopyPool : Gate(x)
  \/ \E x \in AssessPool : Assess(x)

SpecPure == InitPure /\ [][NextPure]_vars

(***************************************************************************)
(* Properties of the pipeline                                              *)
(***************************************************************************)

\* The HTTP requests activation p has sent.
ProviderCalls(p) ==
  inv[p].requests.generate + inv[p].requests.verify + inv[p].requests.embed

NoRequests == [generate |-> 0, verify |-> 0, embed |-> 0]

\* C1, as the specification states it: once the similarity gate has answered
\* reject, the invocation has failed; it makes no further pass and returns
\* no result.
C1_RejectAborts ==
  \A p \in Invocations : inv[p].rejected => inv[p].pc = "thrown"

\* C2: a call whose cache key is in the cache returns the cached Result,
\* sends no request and leaves the cache alone; a call that follows a
\* successful call with the same arguments returns the same Result without
\* a request.
C2_CacheHit ==
  [][\A p \in Invocations :
       LET a == inv[p]
           b == inv'[p]
       IN (a.pc \in {"idle", "returned", "thrown"} /\ b # a)
            => /\ b.cacheKey \in DOMAIN cache
                    => /\ b.pc = "returned"
                       /\ b.result = cache[b.cacheKey]
                       /\ b.requests = NoRequests
                       /\ cache' = cache
               /\ (a.pc = "returned" /\ b.args = a.args)
                    => /\ b.pc = "returned"
                       /\ b.result = a.result
                       /\ b.requests = NoRequests]_vars

\* A call has returned a cached Result: no pass, no request.
C2_Witness ==
  \E p \in Invocations :
    /\ inv[p].pc = "returned"
    /\ inv[p].passes = 0
    /\ inv[p].requests = NoRequests
    /\ inv[p].cacheKey \in DOMAIN cache
    /\ inv[p].result = cache[inv[p].cacheKey]

\* C3: every cache entry is the result of an accept pass: it passes the local
\* validation, its verification is ok and its similarity action is accept.
C3_CacheOnlyAccepted ==
  \A key \in DOMAIN cache :
    LET r == cache[key]
    IN /\ validateChoiceIntegrity(r).ok
       /\ ~RatioExceeds(r.overlap_score, config.overlapThreshold)
       /\ r.difficulty >= 2
       /\ estimateDifficulty(r.question, r.choices) >= 2
       /\ r.verification.ok
       /\ r.similarity.action = "accept"

\* The cache holds an entry that the similarity gate scored and accepted,
\* written after an earlier pass of the same invocation had failed.
C3_Witness ==
  \E p \in Invocations :
    /\ inv[p].pc = "returned"
    /\ inv[p].passes = 2
    /\ inv[p].cacheKey \in DOMAIN cache
    /\ cache[inv[p].cacheKey].similarity.max_cosine_to_any_existing = <<75>>

\* C4: an invocation starts at most semanticAttempts passes (generate
\* operations).
C4_PassesBounded ==
  \A p \in Invocations : inv[p].passes <= config.similarity.semanticAttempts

\* An invocation has failed after three passes.
C4_Witness ==
  \E p \in Invocations :
    /\ inv[p].pc = "thrown"
    /\ inv[p].passes = 3
    /\ config.similarity.semanticAttempts = 3

\* C5: the error an invocation throws after it has used up its passes is the
\* error raised by the last pass.
C5_LastError ==
  \A p \in Invocations :
    inv[p].pc = "thrown"
      => /\ inv[p].passes = config.similarity.semanticAttempts
         /\ inv[p].error.pass = inv[p].passes

\* An invocation has failed with the error of its third pass, a verification
\* failure, after a reject in an earlier pass.
C5_Witness ==
  \E p \in Invocations :
    /\ inv[p].pc = "thrown"
    /\ inv[p].rejected
    /\ inv[p].error.pass = 3
    /\ inv[p].error.message = "Verification failed"

(***************************************************************************)
(* Properties of withRetry and of the gateway                              *)
(***************************************************************************)

\* The delays of the withRetry call of p grow from one retry to the next.
DelaysIncrease(p) ==
  \A k \in 2..Len(inv[p].retry.delays) :
    inv[p].retry.delays[k] > inv[p].retry.delays[k - 1]

\* C6, as the specification states it: against the provider that answers 429
\* twice and then succeeds, the pipeline has made exactly 3 provider calls
\* when it returns.
C6_ThreeProviderCalls ==
  \A p \in Invocations : inv[p].pc = "returned" => ProviderCalls(p) = 3

\* C6, amended: against that provider and with the default configuration the
\* pipeline does not fail, the delays before its retries increase, and when
\* it returns the accepted result it has made exactly 3 generate calls, one
\* verify call and, for a corpus with a text in it, one embeddings call.
C6_ThreeGenerateCalls ==
  \A p \in Invocations :
    /\ inv[p].pc # "thrown"
    /\ DelaysIncrease(p)
    /\ inv[p].pc = "returned"
         => /\ inv[p].result.similarity.action = "accept"
            /\ inv[p].passes = 1
            /\ inv[p].requests =
                 [ generate |-> 3, verify |-> 1,
                   embed |-> IF BankTexts(inv[p].args.existingQuestions) = <<>>
                               THEN 0 ELSE 1 ]

\* The pipeline has returned after 5 provider calls, throttled twice.
C6_Witness ==
  \E p \in Invocations :
    /\ inv[p].pc = "returned"
    /\ throttled = 0
    /\ ProviderCalls(p) = 5

\* C7: a try that fails with an error that is not retryable ends withRetry
\* at once: it throws that error, without a sleep and without another try;
\* when the try was the first, the call was invoked once and no sleep made.
C7_NotRetryable ==
  [][\A p \in Invocations :
       LET a == inv[p]
           b == inv'[p]
       IN (/\ a.pc = "fetch"
           /\ b.retry.lastError # a.retry.lastError
           /\ ~IsRetryable(b.retry.lastError))
            => /\ b.pc = "settled"
               /\ b.retry.settled = "thrown"
               /\ b.retry.lastError.try = a.retry.tries
               /\ b.retry.tries = a.retry.tries
               /\ b.retry.delays = a.retry.delays
               /\ b.requests = a.requests
               /\ a.retry.attempt = 1
                    => b.retry.tries = 1 /\ b.retry.delays = <<>>]_vars

\* withRetry has thrown the error of a 400 response after one try and no
\* sleep.
C7_Witness ==
  \E p \in Invocations :
    /\ inv[p].pc = "settled"
    /\ inv[p].retry.settled = "thrown"
    /\ inv[p].retry.lastError.status = 400
    /\ inv[p].retry.tries = 1
    /\ inv[p].retry.delays = <<>>

\* C8: withRetry makes at least one and at most maxAttempts tries; it sleeps
\* only when a try is left; it returns at its first success; it throws the
\* error of its last try without a sleep after it, and a retryable error only
\* after maxAttempts tries.
C8_TriesBounded ==
  \A p \in Invocations :
    LET r == inv[p].retry
    IN r.op # "none"
         => /\ r.tries >= 1
            /\ r.tries <= config.retry.maxAttempts
            /\ inv[p].pc = "sleep"
                 => r.tries < config.retry.maxAttempts /\ Len(r.delays) = r.tries
            /\ inv[p].pc \in {"fetch", "settled"} => Len(r.delays) = r.tries - 1
            /\ (inv[p].pc = "settled" /\ r.settled = "thrown")
                 => /\ r.lastError.try = r.tries
                    /\ IsRetryable(r.lastError)
                         => r.tries = config.retry.maxAttempts

\* withRetry has thrown a retryable error after four tries and three sleeps.
C8_Witness ==
  \E p \in Invocations :
    /\ inv[p].pc = "settled"
    /\ inv[p].retry.settled = "thrown"
    /\ IsRetryable(inv[p].retry.lastError)
    /\ inv[p].retry.tries = 4
    /\ Len(inv[p].retry.delays) = 3

\* C9: the delay before retry k is baseDelayMs * 2^(k-1) plus a jitter within
\* 0..120, and with the default baseDelayMs of 300 the delays of one call
\* increase strictly.
C9_Backoff ==
  \A p \in Invocations :
    /\ \A k \in 1..Len(inv[p].retry.delays) :
         inv[p].retry.delays[k] - config.retry.baseDelayMs * 2 ^ (k - 1)
           \in 0..120
    /\ config.retry.baseDelayMs = DEFAULT_CONFIG.retry.baseDelayMs
         => DelaysIncrease(p)

\* Three sleeps with the default base delay: the largest jitter, then none.
C9_Witness ==
  \E p \in Invocations :
    /\ config.retry.baseDelayMs = 300
    /\ inv[p].retry.delays = <<419, 600, 1200>>

\* C10: the error the gateway throws for a response that is not ok carries
\* the status of the response, and is retryable exactly for 429 and 503, in
\* each of the three operations.
C10_GatewayError ==
  \A p \in Invocations :
    LET r == inv[p].retry
    IN (r.status # 0 /\ ~ResponseOk(r.status))
         => /\ r.lastError.status = r.status
            /\ r.lastError.retryable <=> r.status \in {429, 503}
            /\ r.lastError.message =
                 (IF r.op = "embed" THEN "Embeddings error" ELSE "OpenAI error")

\* The embeddings request was answered 503 and withRetry sleeps.
C10_Witness ==
  \E p \in Invocations :
    /\ inv[p].pc = "sleep"
    /\ inv[p].retry.op = "embed"
    /\ inv[p].retry.status = 503
    /\ inv[p].retry.lastError.retryable

(***************************************************************************)
(* Properties of the error handling of a pass                              *)
(***************************************************************************)

\* C11, as the specification states it: a provider error that withRetry gave
\* up on is propagated to the caller; an invocation that has such an error
\* behind it has failed and makes no further generate call.
C11_ProviderErrorPropagates ==
  \A p \in Invocations :
    inv[p].lastError.status # 0 => inv[p].pc = "thrown"

(***************************************************************************)
(* Properties of the similarity gate                                       *)
(***************************************************************************)

\* C12: decideSimilarityAction rejects exactly above duplicateThreshold;
\* otherwise it revises exactly below tooFarThreshold or outside
\* [targetMin, targetMax]; otherwise it accepts, whatever the thresholds.
\* With the default thresholds it accepts exactly from 65 to 85.
C12_DecisionOrder ==
  applied.fn = "decideSimilarityAction"
    => LET m == applied.args.maxCosine
           cfg == applied.args.cfg
           action == applied.result.action
           duplicate == m > cfg.duplicateThreshold
           outside == m < cfg.tooFarThreshold
                        \/ m < cfg.targetMin \/ m > cfg.targetMax
       IN /\ action \in {"reject", "revise", "accept"}
          /\ action = "reject" <=> duplicate
          /\ action = "revise" <=> (~duplicate /\ outside)
          /\ action = "accept" <=> (~duplicate /\ ~outside)
          /\ cfg = DEFAULT_CONFIG.similarity
               => (action = "accept" <=> (65 <= m /\ m <= 85))

\* A cosine above duplicateThreshold and below tooFarThreshold is rejected.
C12_Witness ==
  /\ applied.fn = "decideSimilarityAction"
  /\ applied.args.maxCosine > applied.args.cfg.duplicateThreshold
  /\ applied.args.maxCosine < applied.args.cfg.tooFarThreshold
  /\ applied.result.action = "reject"

\* C13: with the default thresholds a cosine of exactly 92 is revised, not
\* rejected, exactly 55 is revised, and exactly 65 and exactly 85 are
\* accepted.
C13_Boundaries ==
  (applied.fn = "decideSimilarityAction"
     /\ applied.args.cfg = DEFAULT_CONFIG.similarity)
    => LET m == applied.args.maxCosine
           action == applied.result.action
       IN /\ m = 92 => action = "revise"
          /\ m = 55 => action = "revise"
          /\ m = 65 => action = "accept"
          /\ m = 85 => action = "accept"

\* The default gate has revised a cosine of exactly 92.
C13_Witness ==
  /\ applied.fn = "decideSimilarityAction"
  /\ applied.args.cfg = DEFAULT_CONFIG.similarity
  /\ applied.args.maxCosine = 92
  /\ applied.result.action = "revise"

\* C14: while the corpus of an invocation holds no non-empty text, the
\* invocation sends no embeddings request; assessSimilarity returns accept
\* with the skip reason, null and no matches; and the pass ends in accept:
\* the result is cached and returned.
C14_EmptyCorpusSkips ==
  [][\A p \in Invocations :
       LET a == inv[p]
           b == inv'[p]
       IN (/\ a.pc \in {"fetch", "sleep", "settled"}
           /\ BankTexts(a.args.existingQuestions) = <<>>)
            => /\ a.requests.embed = 0
               /\ (a.pc = "settled" /\ a.retry.op = "embed")
                    => /\ a.retry.settled = "returned"
                       /\ a.retry.value.action = "accept"
                       /\ a.retry.value.reason = "bank_missing_skip_similarity"
                       /\ a.retry.value.max_cosine_to_any_existing = <<>>
                       /\ a.retry.value.top_matches = <<>>
                       /\ b # a
                            => /\ b.pc = "returned"
                               /\ b.result.similarity = a.retry.value
                               /\ b.requests.embed = 0
                               /\ b.cacheKey \in DOMAIN cache'
                               /\ cache'[b.cacheKey] = b.result]_vars

\* An invocation with a corpus of one blank text has returned a result whose
\* similarity was skipped.
C14_Witness ==
  \E p \in Invocations :
    /\ inv[p].pc = "returned"
    /\ inv[p].passes > 0
    /\ inv[p].args.existingQuestions = << <<32>> >>
    /\ inv[p].result.similarity.reason = "bank_missing_skip_similarity"
    /\ inv[p].requests.embed = 0

(***************************************************************************)
(* Properties of the local validators                                      *)
(***************************************************************************)

\* The four checks of the choices of a question hold together: an array of 4
\* choices, labels pairwise distinct, normalized texts pairwise distinct,
\* correct_label among the labels.
FourChecks(question) ==
  /\ question.choicesIsArray
  /\ Len(question.choices) = 4
  /\ \A j, k \in 1..4 :
       j < k => /\ question.choices[j].label # question.choices[k].label
                /\ normalizeText(question.choices[j].text)
                     # normalizeText(question.choices[k].text)
  /\ \E k \in 1..4 : question.choices[k].label = question.correct_label

\* C15: validateChoiceIntegrity returns ok = true exactly when the four
\* checks hold together. (It is an operator on values: the source assigns
\* nothing to its argument.)
C15_OkIffFourChecks ==
  applied.fn = "validateChoiceIntegrity"
    => (applied.result.ok <=> FourChecks(applied.args))

\* A question whose choices "b" and "b!" differ only before normalization has
\* been refused.
C15_Witness ==
  /\ applied.fn = "validateChoiceIntegrity"
  /\ ~applied.result.ok
  /\ Len(applied.args.choices) = 4
  /\ \E j, k \in 1..4 :
       /\ applied.args.choices[j].text = <<98>>
       /\ applied.args.choices[k].text = <<98, 33>>

\* C16, as the specification states it: the reason is choices_missing
\* whenever choices is absent or is not an array of exactly 4 elements.
C16_MissingForAnyCount ==
  (applied.fn = "validateChoiceIntegrity"
     /\ (~applied.args.choicesIsArray \/ Len(applied.args.choices) # 4))
    => applied.result.reason = "choices_missing"

\* C16, amended: the reason is choices_missing when choices is absent or not
\* an array, and choices_count when it is an array of another length than 4.
C16_MissingOrCount ==
  applied.fn = "validateChoiceIntegrity"
    => /\ ~applied.args.choicesIsArray
            => ~applied.result.ok /\ applied.result.reason = "choices_missing"
       /\ (applied.args.choicesIsArray /\ Len(applied.args.choices) # 4)
            => ~applied.result.ok /\ applied.result.reason = "choices_count"

\* An array of 5 choices has been refused with choices_count.
C16_Witness ==
  /\ applied.fn = "validateChoiceIntegrity"
  /\ applied.args.choicesIsArray
  /\ Len(applied.args.choices) = 5
  /\ applied.result.reason = "choices_count"

\* The results the service has handed out: those returned and those cached.
Results ==
  { inv[p].result : p \in {q \in Invocations : inv[q].pc = "returned"} }
    \cup { cache[key] : key \in DOMAIN cache }

\* The Choice invariant of a result: 4 choices, labels pairwise distinct and
\* exactly A, B, C, D, normalized texts pairwise distinct, correct_label the
\* label of exactly one choice.
ChoiceInvariant(r) ==
  /\ Len(r.choices) = 4
  /\ {r.choices[k].label : k \in 1..4} = {"A", "B", "C", "D"}
  /\ \A j, k \in 1..4 :
       j < k => /\ r.choices[j].label # r.choices[k].label
                /\ normalizeText(r.choices[j].text)
                     # normalizeText(r.choices[k].text)
  /\ Cardinality({k \in 1..4 : r.choices[k].label = r.correct_label}) = 1

\* C17, as the specification states it: every result returned or cached
\* satisfies the Choice invariant, whatever the generator call returned.
C17_ChoiceInvariant == \A r \in Results : ChoiceInvariant(r)

\* C18: no result is returned or cached whose model-reported difficulty or
\* whose heuristic difficulty is below 2; a pass whose candidate has either
\* below 2 ends with the difficulty error of the local validation.
C18_DifficultyFloor ==
  /\ \A r \in Results :
       r.difficulty >= 2 /\ estimateDifficulty(r.question, r.choices) >= 2
  /\ \A p \in Invocations :
       (/\ inv[p].pc = "settled"
        /\ inv[p].retry.op = "verify")
         => /\ inv[p].validated.difficulty >= 2
            /\ estimateDifficulty(inv[p].validated.question,
                                  inv[p].validated.choices) >= 2

\* A pass has refused its candidate for its difficulty, and the candidate of
\* the next pass has passed the local validation.
C18_Witness ==
  \E p \in Invocations :
    /\ inv[p].pc = "settled"
    /\ inv[p].retry.op = "verify"
    /\ inv[p].passes = 2
    /\ inv[p].lastError.message = "Question difficulty too low"
    /\ inv[p].validated.difficulty >= 2

\* What estimateDifficulty looks at in the question x: the length of the
\* normalized question-plus-choices text and the two kinds of markers.
Measured(x) ==
  LET normalized == normalizeText(DifficultyText(QuestionText(x), x.choices))
  IN [ length |-> Len(normalized),
       negation |-> \E w \in negationMarkers : OccursAsWord(w, normalized),
       scenario |-> \E w \in scenarioMarkers : OccursAsWord(w, normalized),
       raw |-> Len(DifficultyText(QuestionText(x), x.choices)),
       score |-> estimateDifficulty(QuestionText(x), x.choices) ]

\* The questions a score is compared with: short, past 180 and past 320, with
\* every combination of markers.
ReferencePool ==
  { x \in DifficultyPool :
      /\ x.fill \in {0, 170, 181, 310, 321}
      /\ x.padding = 0
      /\ x.choices = GoodCandidate.choices }

ReferenceMeasures == { Measured(y) : y \in ReferencePool }

\* m has at most the length and at most the markers of n.
AtMost(m, n) ==
  /\ m.length <= n.length
  /\ m.negation => n.negation
  /\ m.scenario => n.scenario

Indicator(b) == IF b THEN 1 ELSE 0

\* C19: estimateDifficulty returns 1, plus 1 when the normalized
\* question-plus-choices text is longer than 180, plus 1 when it is longer
\* than 320, plus 1 when a negation marker is present, plus 1 when a scenario
\* marker is present, and at most 5; the result lies in 1..5; a question with
\* at least the length and at least the markers of another never scores less.
C19_DifficultyScore ==
  applied.fn = "estimateDifficulty" =>
    LET mine == Measured(applied.args)
        sum == 1 + Indicator(mine.length > 180) + Indicator(mine.length > 320)
                 + Indicator(mine.negation) + Indicator(mine.scenario)
    IN /\ applied.result = IF sum < 5 THEN sum ELSE 5
       /\ applied.result \in 1..5
       /\ \A m \in ReferenceMeasures :
            /\ AtMost(m, mine) => m.score <= applied.result
            /\ AtMost(mine, m) => applied.result <= m.score

\* A question with a negation marker whose text is longer than 320 code units
\* before it is normalized and between 181 and 320 after: it scores 3, more
\* than a shorter reference question without markers.
C19_Witness ==
  /\ applied.fn = "estimateDifficulty"
  /\ applied.args.padding > 0
  /\ Measured(applied.args).raw > 320
  /\ Measured(applied.args).length > 180
  /\ Measured(applied.args).length <= 320
  /\ Measured(applied.args).negation
  /\ ~Measured(applied.args).scenario
  /\ applied.result = 3
  /\ \E m \in ReferenceMeasures : AtMost(m, Measured(applied.args)) /\ m.score = 1

\* The set of the contiguous n-grams of a list of words, as tuples of words.
GramTuples(words, n) ==
  { SubSeq(words, k, k + n - 1) : k \in 1..(Len(words) - n + 1) }

\* C20: ngramOverlap(a, b, n) is the number of n-grams the two texts share
\* divided by the number of n-grams of a, the n-grams being those of the two
\* normalized token sequences, and 0 when either text has fewer than n
\* tokens; it lies within 0 and 1, is 1 for two texts of the same tokens when
\* there are at least n of them, and 0 for two texts without a common word.
C20_NgramOverlap ==
  applied.fn = "ngramOverlap" =>
    LET x == applied.args
        gramsA == GramTuples(x.a, x.n)
        gramsB == GramTuples(x.b, x.n)
        shared == Cardinality(gramsA \cap gramsB)
        r == applied.result
    IN /\ r.den > 0
       /\ IF Len(x.a) < x.n \/ Len(x.b) < x.n
          THEN r.num = 0
          ELSE r.num * Cardinality(gramsA) = shared * r.den
       /\ 0 <= r.num /\ r.num <= r.den
       /\ (x.b = x.a /\ Len(x.a) >= x.n) => r.num = r.den
       /\ ToSet(x.a) \cap ToSet(x.b) = {} => r.num = 0

\* Two texts of three tokens, the first written with upper case and
\* punctuation: they share one of the two 2-grams of the first.
C20_Witness ==
  /\ applied.fn = "ngramOverlap"
  /\ applied.args.noisy
  /\ applied.args.n = 2
  /\ Len(applied.args.a) = 3
  /\ Cardinality(GramTuples(applied.args.a, 2)) = 2
  /\ Cardinality(GramTuples(applied.args.b, 2)) = 1
  /\ applied.result.num * 2 = applied.result.den

\* A lower-case letter: a letter that toLowerCase leaves alone.
IsLowerCaseLetter(c) == IsLetter(c) /\ toLowerCase(c) = c

\* C21: normalizeText is idempotent, normalizeText(normalizeText(x)) =
\* normalizeText(x) for every text x, and its output holds only lower-case
\* letters, digits and single spaces.
C21_Idempotent ==
  applied.fn = "normalizeText" =>
    LET out == applied.result
    IN /\ normalizeText(out) = out
       /\ \A k \in 1..Len(out) :
            IsLowerCaseLetter(out[k]) \/ IsNumber(out[k]) \/ out[k] = 32
       /\ \A k \in 1..(Len(out) - 1) : ~(out[k] = 32 /\ out[k + 1] = 32)

\* The request the handler has answered carries a non-empty string paragraph.
ParagraphGiven ==
  /\ http.req.body # Null
  /\ http.req.body.paragraph.type = "string"
  /\ http.req.body.paragraph.value # <<>>

\* The response of the handler follows the documented mapping, the error of
\* an absent API key being keyError: in this order, 405 method_not_allowed
\* for a request that is not a POST, 400 paragraph_required for a missing or
\* non-string paragraph, 500 keyError without an API key, 422
\* generation_failed with the message of the error the pipeline threw; and
\* 200 only with the Result the pipeline returned, which is the cached one
\* and was accepted.
MappedResponse(keyError) ==
  http.pc = "responded" =>
    LET response == http.response
    IN /\ IF http.req.method # "POST"
            THEN response = jsonResponse(405, [error |-> "method_not_allowed"])
          ELSE IF ~ParagraphGiven
            THEN response = jsonResponse(400, [error |-> "paragraph_required"])
          ELSE IF http.apiKey = ""
            THEN response = jsonResponse(500, [error |-> keyError])
          ELSE IF inv[1].pc = "thrown"
            THEN response = jsonResponse(422, [error |-> "generation_failed",
                                               message |-> inv[1].error.message])
          ELSE response.status = 200
       /\ response.status = 200 =>
            /\ inv[1].pc = "returned"
            /\ response.body = inv[1].result
            /\ inv[1].cacheKey \in DOMAIN cache
            /\ cache[inv[1].cacheKey] = response.body
            /\ response.body.similarity.action = "accept"
            /\ response.body.verification.ok

\* C22 (as stated): the handler answers 405 method_not_allowed, 400
\* paragraph_required, 500 missing_api_key or 422 generation_failed with the
\* error message, and 200 only with the Result of an accepted pass or of a
\* cache hit.
C22_DocumentedResponses == MappedResponse("missing_api_key")

\* C22 (amended): the same mapping, the error of an absent API key being
\* missing_openai_api_key.
C22_Responses == MappedResponse("missing_openai_api_key")

\* A POST with a paragraph has been answered 500 because no API key is set.
C22_Witness ==
  /\ http.pc = "responded"
  /\ http.req.method = "POST"
  /\ ParagraphGiven
  /\ http.apiKey = ""
  /\ http.response.status = 500

\* C23: without an API key every entry point fails hard and makes no provider
\* call: the constructor of AIQuestionService throws, the handler answers
\* 500, and a run of the batch generator makes no fetch and ends with a
\* non-zero exit code, without writing its output file.
C23_HardFailure ==
  /\ Construct("", DEFAULT_CONFIG).threw
  /\ (http.pc = "responded" /\ http.req.method = "POST" /\ ParagraphGiven
        /\ http.apiKey = "")
       => http.response.status = 500
  /\ (batch.pc = "exited" /\ batch.apiKey = "")
       => (batch.fetches = 0 /\ batch.exitCode # 0 /\ ~batch.written)

\* C24: a key the cache holds keeps its value in every later state: no entry
\* is removed, and none is replaced by a different Result, whichever
\* activations run concurrently.
C24_CacheImmutable ==
  [][\A key \in DOMAIN cache : key \in DOMAIN cache' /\ cache'[key] = cache[key]]_vars

\* The withRetry call activation me awaited has returned a value with which
\* its pass fails: a candidate postValidate throws for, a verification that
\* is not ok, or a similarity assessment that says revise.
PassFails(me, cfg) ==
  /\ me.pc = "settled"
  /\ me.retry.settled = "returned"
  /\ \/ /\ me.retry.op = "generate"
        /\ postValidate(me.retry.value, me.args.paragraph,
                        me.input.paragraphTags, cfg).threw
     \/ me.retry.op = "verify" /\ ~me.retry.value.ok
     \/ me.retry.op = "embed" /\ me.retry.value.action = "revise"

\* C25: a pass that ends in a local validation error, in a failed
\* verification or in a similarity revise uses up exactly one semantic
\* attempt; while attempts remain the next step of the invocation is a new
\* generate request of a new pass, with no candidate kept and no verify or
\* embed request for the old one; after the last attempt the invocation
\* throws without any further request.
C25_FailedPassRestarts ==
  [][PassFails(inv[1], config) =>
       IF inv[1].i + 1 < config.similarity.semanticAttempts
         THEN /\ inv'[1].pc = "fetch"
              /\ inv'[1].retry.op = "generate"
              /\ inv'[1].i = inv[1].i + 1
              /\ inv'[1].passes = inv[1].passes + 1
              /\ inv'[1].validated = Null
              /\ inv'[1].verified = Null
              /\ inv'[1].requests =
                   [inv[1].requests EXCEPT !.generate = @ + 1]
       ELSE /\ inv'[1].pc = "thrown"
            /\ inv'[1].passes = inv[1].passes
            /\ inv'[1].requests = inv[1].requests]_vars

\* The second pass has sent its generate request after the first ended in a
\* similarity revise, for which one embed request was made.
C25_Witness ==
  /\ inv[1].pc = "fetch"
  /\ inv[1].retry.op = "generate"
  /\ inv[1].passes = 2
  /\ inv[1].lastError.message = "Similarity revise"
  /\ inv[1].requests = [generate |-> 2, verify |-> 1, embed |-> 1]

\* Activation me is in a withRetry call: it awaits a response, sleeps between
\* two tries, or has not yet resumed after the call settled.
InCall(me) == me.pc \in {"fetch", "sleep", "settled"}

\* The stage activation me is in has had its earlier stages: the generate
\* stage holds no candidate yet; the verify stage holds a candidate that
\* postValidate lets pass; the similarity stage holds that candidate and a
\* verification that is ok.
StagesInOrder(me, cfg) ==
  InCall(me) =>
    /\ me.retry.op \in {"generate", "verify", "embed"}
    /\ me.retry.op = "generate" => me.validated = Null /\ me.verified = Null
    /\ me.retry.op \in {"verify", "embed"} =>
         /\ me.validated # Null
         /\ ~postValidate(me.validated, me.args.paragraph,
                          me.input.paragraphTags, cfg).threw
         /\ me.requests.generate >= me.passes
    /\ me.retry.op = "verify" => me.verified = Null
    /\ me.retry.op = "embed" =>
         /\ me.verified # Null
         /\ me.verified.ok
         /\ me.requests.verify >= 1

\* C26: in every pass the stages run in the order generate, local validation,
\* verify, similarity: a verify call is made only for a candidate that passed
\* local validation, an embed call only for a candidate whose verification
\* is ok, and the cache is written only in the step that takes the similarity
\* assessment of that candidate, with that candidate, verification and
\* assessment.
C26_StageOrder ==
  /\ []StagesInOrder(inv[1], config)
  /\ [][cache' # cache =>
          /\ inv[1].pc = "settled"
          /\ inv[1].retry.op = "embed"
          /\ inv[1].retry.settled = "returned"
          /\ inv[1].retry.value.action = "accept"
          /\ cache'[inv[1].cacheKey].question = inv[1].validated.question
          /\ cache'[inv[1].cacheKey].choices = inv[1].validated.choices
          /\ cache'[inv[1].cacheKey].verification = inv[1].verified
          /\ cache'[inv[1].cacheKey].similarity = inv[1].retry.value]_vars

\* The invocation has returned the Result it cached in its second pass, after
\* two generate, two verify and two embed requests.
C26_Witness ==
  /\ inv[1].pc = "returned"
  /\ inv[1].cacheKey \in DOMAIN cache
  /\ cache[inv[1].cacheKey] = inv[1].result
  /\ inv[1].passes = 2
  /\ inv[1].requests = [generate |-> 2, verify |-> 2, embed |-> 2]

\* C27: no invocation waits for another one that computes the same key:
\* whatever the other activation is doing, an invocation whose key the cache
\* does not hold sends its own generate request in its first step (and one
\* whose key the cache holds returns), so that two invocations of one key can
\* both miss the cache and both call the generator.
C27_NoSingleFlight ==
  [][\A p \in Concurrent :
       (inv[p].pc \in {"idle", "returned", "thrown"} /\ inv'[p] # inv[p]) =>
         IF inv'[p].cacheKey \in DOMAIN cache
           THEN inv'[p].pc = "returned"
         ELSE /\ inv'[p].pc = "fetch"
              /\ inv'[p].retry.op = "generate"
              /\ inv'[p].requests.generate = 1]_vars

\* Both activations have missed the cache for the same key and have sent a
\* generate request each, which the provider has not answered.
C27_Witness ==
  /\ inv[1].pc = "fetch" /\ inv[1].retry.op = "generate"
  /\ inv[2].pc = "fetch" /\ inv[2].retry.op = "generate"
  /\ inv[1].cacheKey = inv[2].cacheKey
  /\ inv[1].args = inv[2].args
  /\ inv[1].cacheKey \notin DOMAIN cache
  /\ inv[1].requests.generate = 1
  /\ inv[2].requests.generate = 1

\* C28: within one invocation at most one provider call is outstanding at any
\* time: a request is outstanding exactly while the invocation awaits its
\* response, and a request is sent or a backoff sleep is started only when
\* the previous request of the invocation has been answered.
C28_OneOutstanding ==
  /\ [](/\ inv[1].outstanding \in {0, 1}
        /\ inv[1].outstanding = 1 <=> inv[1].pc = "fetch")
  /\ [][/\ ProviderCalls(1)' > ProviderCalls(1) =>
             /\ inv[1].outstanding = 0
             /\ ProviderCalls(1)' = ProviderCalls(1) + 1
        /\ (inv'[1].pc = "sleep" /\ inv[1].pc # "sleep") =>
             /\ inv[1].outstanding = 1
             /\ inv'[1].outstanding = 0]_vars

\* The invocation awaits the response to its verify request, the only one
\* outstanding, after a generate request that failed, a backoff sleep and a
\* second generate request.
C28_Witness ==
  /\ inv[1].pc = "fetch"
  /\ inv[1].retry.op = "verify"
  /\ inv[1].outstanding = 1
  /\ inv[1].passes = 1
  /\ inv[1].requests = [generate |-> 2, verify |-> 1, embed |-> 0]

\* The work activation me has left, as a number: the passes it may still
\* start, within the pass the stages still to run, within the stage the tries
\* withRetry may still make, and within the try whether the request is in
\* flight, the sleep runs or the call has settled. It is 0 once the
\* invocation has returned or thrown.
WorkLeft(me, cfg) ==
  LET perStage == 3 * cfg.retry.maxAttempts + 3
      perPass == 4 * perStage
      stage == IF me.retry.op = "generate" THEN 3
               ELSE IF me.retry.op = "verify" THEN 2 ELSE 1
      phase == IF me.pc = "fetch" THEN 2 ELSE IF me.pc = "sleep" THEN 1 ELSE 0
  IN IF ~InCall(me) THEN 0
     ELSE (cfg.similarity.semanticAttempts - me.i) * perPass
            + stage * perStage
            + 3 * (cfg.retry.maxAttempts - me.retry.attempt) + phase

\* C29: every invocation of generateFromParagraph ends when the provider
\* answers every request and every sleep ends: whatever the answers are,
\* each step of an invocation that is in a call (an answer, the end of a
\* sleep, the resumption after a call) lowers the work it has left, a natural
\* number, so neither the attempt loop nor the retry loop can run for ever,
\* and at 0 the invocation has returned or thrown.
C29_Terminates ==
  /\ [](/\ WorkLeft(inv[1], config) \in Nat
        /\ WorkLeft(inv[1], config) = 0 <=>
             inv[1].pc \in {"idle", "returned", "thrown"})
  /\ [][InCall(inv[1]) =>
          WorkLeft(inv'[1], config') < WorkLeft(inv[1], config)]_vars

\* The invocation has thrown after all the three passes of the configuration.
C29_Witness ==
  /\ inv[1].pc = "thrown"
  /\ inv[1].passes = 3
  /\ config.similarity.semanticAttempts = 3


\* C30: postValidate throws for every candidate whose question is a verbatim
\* run of at least 5 tokens of the paragraph, whatever the length of the
\* paragraph.
C30_CopyRejected ==
  (applied.fn = "postValidate" /\ applied.args.len >= 5) => applied.result


\* C31: every Result generateFromParagraph returns for a call with a
\* non-empty corpus carries a similarity assessment with action accept that
\* was computed against the bank texts of that same call, also when the
\* Result comes from the cache.
C31_SimilarityOfCall ==
  \A p \in Invocations :
    LET bankTexts == BankTexts(inv[p].args.existingQuestions)
    IN (inv[p].pc = "returned" /\ bankTexts # <<>>) =>
         /\ inv[p].result.similarity.action = "accept"
         /\ \E cosines \in [1..Len(bankTexts) -> CosineValues] :
              inv[p].result.similarity =
                ScoredSimilarity(bankTexts, cosines, config.similarity)


\* C32: a cache hit returns a Result that was produced for the same
\* (paragraph, detected language, article_ref, topic tags): two calls whose
\* inputs differ in any of these never have the same cache key, so that they
\* never share a cache entry.
C32_KeyPerInput ==
  \A p, q \in Invocations :
    LET KeyInput(args) ==
          << args.paragraph, detectLanguage(args.paragraph, args.language),
             args.articleRef, tagParagraphTopic(args.paragraph) >>
    IN (/\ inv[p].pc = "returned" /\ inv[q].pc = "returned"
        /\ KeyInput(inv[p].args) # KeyInput(inv[q].args)) =>
         inv[p].cacheKey # inv[q].cacheKey


\* C33: one invocation of generateFromParagraph sends at most
\* semanticAttempts * maxAttempts HTTP requests to each of the generate,
\* verify and embed operations, hence at most
\* 3 * semanticAttempts * maxAttempts requests in total.
C33_RequestBound ==
  \A p \in Invocations :
    LET perOperation ==
          config.similarity.semanticAttempts * config.retry.maxAttempts
    IN /\ inv[p].requests.generate <= perOperation
       /\ inv[p].requests.verify <= perOperation
       /\ inv[p].requests.embed <= perOperation
       /\ ProviderCalls(p) <= 3 * perOperation
       /\ DEFAULT_CONFIG.similarity.semanticAttempts
            * DEFAULT_CONFIG.retry.maxAttempts = 12

\* With two passes of two tries each, an invocation has sent four requests
\* to each operation: every first try failed with a retryable status and the
\* similarity gate asked for a revision in the first pass.
C33_Witness ==
  /\ config.similarity.semanticAttempts = 2
  /\ config.retry.maxAttempts = 2
  /\ inv[1].requests = [generate |-> 4, verify |-> 4, embed |-> 4]


\* C34: assessSimilarity embeds at most 400 corpus texts, the first 400
\* non-empty ones, and for topK >= 1 max_cosine_to_any_existing is the
\* largest cosine between the candidate and all the embedded texts: topK
\* limits the matches reported, not the maximum that decides the action.
C34_MaxOverEmbedded ==
  applied.fn = "assessSimilarity" =>
    LET x == applied.args
        texts == applied.result.texts
        similarity == applied.result.similarity
        given == { k \in 1..x.size : k # x.blankAt }
        \* the position in the corpus of the j-th non-empty text
        Nth(j) == IF x.blankAt \in 1..j THEN j + 1 ELSE j
        largest == SetMax({ x.cosines[j] : j \in 1..Len(texts) })
    IN /\ Len(texts) <= 400
       /\ Len(texts) = IF Cardinality(given) < 400 THEN Cardinality(given)
                       ELSE 400
       /\ \A j \in 1..Len(texts) : texts[j] = CorpusText(Nth(j))
       /\ (x.topK >= 1 /\ texts # <<>>) =>
            /\ similarity.max_cosine_to_any_existing = <<largest>>
            /\ similarity.action =
                 decideSimilarityAction(largest,
                                        DEFAULT_CONFIG.similarity).action
            /\ Len(similarity.top_matches) =
                 IF x.topK < Len(texts) THEN x.topK ELSE Len(texts)

\* A corpus of 402 texts whose first is blank: the 400 texts after it are
\* embedded, the closest is the last of them, and one match is reported.
C34_Witness ==
  /\ applied.fn = "assessSimilarity"
  /\ applied.args.size = 402 /\ applied.args.blankAt = 1
  /\ applied.args.topK = 1
  /\ Len(applied.result.texts) = 400
  /\ applied.args.cosines[400] = 95
  /\ applied.result.texts[400] = CorpusText(401)
  /\ applied.result.similarity.max_cosine_to_any_existing = <<95>>
  /\ applied.result.similarity.action = "reject"


\* C35: in the batch generator, an attempt that follows a refused attempt of
\* the same item obtains a new candidate from the generator model: with an
\* API key, generateAndValidate of a later attempt calls the generator and
\* does not return a result from the on-disk cache.
C35_NewCandidate ==
  [][(batch.pc = "cache" /\ batch.attempt > 0 /\ batch.apiKey # "") =>
       /\ batch'.pc = "generate"
       /\ batch'.fetches = batch.fetches + 1]_vars


\* C36: every item the batch generator appends during a run comes from a
\* result with validated.ok = true and a confidence of at least 0.85; a
\* failed provider call (and so every call of a run without an API key)
\* never yields an item; the items change only when the existing ones are
\* loaded and when one accepted result is appended.
C36_ItemsAccepted ==
  /\ [](\A k \in 1..Len(batch.items) :
          batch.items[k].origin = "run" =>
            /\ batch.items[k].ok = "true"
            /\ batch.items[k].confidence >= 85
            /\ batch.items[k].cached \/ batch.apiKey # "")
  /\ [][batch'.items # batch.items =>
          \/ batch.pc = "idle"
          \/ /\ batch.pc \in {"cache", "validate"}
             /\ Len(batch'.items) = Len(batch.items) + 1
             /\ SubSeq(batch'.items, 1, Len(batch.items)) = batch.items
             /\ batch'.items[Len(batch'.items)].origin = "run"]_vars

\* A run has ended after appending an item whose result the validator
\* accepted with the confidence 0.85 exactly.
C36_Witness ==
  /\ batch.pc = "exited" /\ batch.written
  /\ \E k \in 1..Len(batch.items) :
       /\ batch.items[k].origin = "run"
       /\ ~batch.items[k].cached
       /\ batch.items[k].confidence = 85


\* C37: when the batch generator appends an item, the Jaccard similarity of
\* its question to the question of every item already in the pool (loaded
\* from the existing output file or appended earlier in the run) is at most
\* 0.60, also when the accepted result came from the cache directory; the
\* items already in the pool stay unchanged before it, so that the loaded
\* items are a prefix of the output.
C37_PoolDeduplicated ==
  [][batch.pc # "idle" =>
       \/ batch'.items = batch.items
       \/ /\ Len(batch'.items) = Len(batch.items) + 1
          /\ SubSeq(batch'.items, 1, Len(batch.items)) = batch.items
          /\ \A k \in 1..Len(batch.items) :
               ~RatioExceeds(
                  jaccard(batch'.items[Len(batch'.items)].question,
                          batch.items[k].question), 60)]_vars

\* A run has ended with two loaded items and one appended item, after one
\* iteration that appended nothing.
C37_Witness ==
  /\ batch.pc = "exited" /\ batch.written
  /\ batch.generatedCount = 2
  /\ Len(batch.items) = 3
  /\ batch.items[1].origin = "loaded" /\ batch.items[2].origin = "loaded"
  /\ batch.items[3].origin = "run"

\* The workers of the repair run that were called and whose runner has not
\* resumed yet.
InFlight == { r \in 1..Len(repair.runners) : repair.runners[r].pc \in {"api", "await"} }

\* C38: runWithConcurrency calls the worker at most once per index while it
\* runs and exactly once per index when it has completed; a stored result is
\* at the index of its item, in whatever order the workers complete; with a
\* limit of at least 1 no more than limit workers are in flight; and when the
\* result of every item is stored every runner is done, so that Promise.all
\* resolves, while it has not completed before every result is stored.
C38_EachIndexOnce ==
  repair.pc # "idle" =>
    /\ \A k \in 1..Len(repair.selected) :
         /\ repair.calls[k] <= 1
         /\ repair.results[k] # <<>> =>
              /\ repair.calls[k] = 1
              /\ repair.results[k][1].id = repair.selected[k].id
    /\ repair.limit >= 1 => Cardinality(InFlight) <= repair.limit
    /\ (\A k \in 1..Len(repair.selected) : repair.results[k] # <<>>) =>
         \A r \in 1..Len(repair.runners) : repair.runners[r].pc = "done"
    /\ repair.pc = "written" =>
         \A k \in 1..Len(repair.selected) :
           repair.calls[k] = 1 /\ repair.results[k] # <<>>

\* Three items under limit 2: the results of the second and the third item
\* are stored while the worker of the first is still in flight.
C38_Witness ==
  /\ repair.pc = "running"
  /\ repair.limit = 2
  /\ Len(repair.selected) = 3
  /\ repair.results[1] = <<>>
  /\ repair.results[2] # <<>>
  /\ repair.results[3] # <<>>
  /\ Cardinality(InFlight) = 1

\* The answer is a repair that changes correct_label or does not carry the
\* labels A, B, C, D exactly once.
RepairRefused(question, answer) ==
  /\ ~answer.threw
  /\ answer.isObject
  /\ \/ answer.correct_label # question.correct_label
     \/ Len(answer.labels) # 4
     \/ ToSet(answer.labels) # {"A", "B", "C", "D"}

\* C39: every result of the repair run, and every question written, has the
\* correct_label of its normalized input question; and for a question whose
\* repair changed correct_label or did not carry the labels A, B, C, D
\* exactly once, the result has the original text and origin "failed", and
\* the repair cache has no entry for it.
C39_CorrectLabelKept ==
  repair.pc # "idle" =>
    \A k \in 1..Len(repair.selected) :
      LET question == repair.selected[k] IN
      /\ repair.results[k] # <<>> =>
           repair.results[k][1].correct_label = question.correct_label
      /\ repair.pc = "written" =>
           /\ repair.written[k] # <<>>
           /\ repair.written[k][1].id = question.id
           /\ repair.written[k][1].correct_label = question.correct_label
      /\ (repair.replies[k] # <<>> /\ RepairRefused(question, repair.replies[k][1])) =>
           /\ repair.cache[k] = <<>>
           /\ repair.results[k] # <<>> =>
                /\ repair.results[k][1].origin = "failed"
                /\ repair.results[k][1].text = question.text
           /\ repair.pc = "written" =>
                /\ repair.written[k][1].origin = "failed"
                /\ repair.written[k][1].text = question.text

\* A written run in which one repair changed correct_label and another had
\* a label twice, both written as failed, next to a repaired question.
C39_Witness ==
  /\ repair.pc = "written"
  /\ \E k, j, m \in 1..Len(repair.selected) :
       /\ repair.replies[k] # <<>>
       /\ repair.replies[k][1].isObject
       /\ repair.replies[k][1].labels = LabelsABCD
       /\ repair.replies[k][1].correct_label # repair.selected[k].correct_label
       /\ repair.written[k][1].origin = "failed"
       /\ repair.replies[j] # <<>>
       /\ repair.replies[j][1].labels = <<"A", "A", "C", "D">>
       /\ repair.written[j][1].origin = "failed"
       /\ repair.written[m][1].origin = "ai_repair"

====
